---- MODULE Spec2Model ----
(***************************************************************************)
(* Model of the build subsystem of Stellar-TUI (src/src/build.rs):        *)
(* target resolution, spawn_build, the background task run_build_process  *)
(* with its cleaning / regeneration / compile phases, the two reader      *)
(* tasks, the external processes, the log channel and the BuildHandle.    *)
(*                                                                         *)
(* Strings are sequences of one-character strings.  Log lines and errors  *)
(* are records whose `text` is the literal part of the format string.     *)
(***************************************************************************)
EXTENDS Integers, Sequences, FiniteSets, TLC

(* ------------------------------ bounds -------------------------------- *)

\* Lines the compile process may write in total (stdout and stderr together).
MaxLines == 2

\* Target resolutions followed in the resolution specification.
MaxCalls == 2

(* ------------------------------ strings ------------------------------- *)

\* The characters used by the modelled inputs, in code-point order.
Alphabet ==
    <<" ", ".", "B", "D", "E", "F", "I", "O", "Q", "R", "T", "a", "c", "d",
      "e", "g", "i", "o", "r", "s", "t", "u", "x", "z">>

Code(c) == CHOOSE i \in 1..Len(Alphabet) : Alphabet[i] = c

\* char::to_lowercase on the alphabet
LowerChar(c) ==
    CASE c = "B" -> "b"
      [] c = "D" -> "d"
      [] c = "E" -> "e"
      [] c = "F" -> "f"
      [] c = "I" -> "i"
      [] c = "O" -> "o"
      [] c = "Q" -> "q"
      [] c = "R" -> "r"
      [] c = "T" -> "t"
      [] OTHER -> c

\* Mutant of to_lowercase: the string is left as it is.
to_lowercase_AsIs(s) == s

to_lowercase(s) == [i \in 1..Len(s) |-> LowerChar(s[i])]

ends_with(s, suf) ==
    /\ Len(s) >= Len(suf)
    /\ SubSeq(s, Len(s) - Len(suf) + 1, Len(s)) = suf

strip_suffix(s, suf) == SubSeq(s, 1, Len(s) - Len(suf))

IsSpace(c) == c = " "

RECURSIVE TrimStart(_)
TrimStart(s) ==
    IF s # <<>> /\ IsSpace(Head(s)) THEN TrimStart(Tail(s)) ELSE s

RECURSIVE TrimEnd(_)
TrimEnd(s) ==
    IF s # <<>> /\ IsSpace(s[Len(s)])
    THEN TrimEnd(SubSeq(s, 1, Len(s) - 1))
    ELSE s

\* str::trim
trim(s) == TrimEnd(TrimStart(s))

\* Ord for String: lexicographic by code point, a proper prefix first.
RECURSIVE StrLess(_, _)
StrLess(a, b) ==
    IF a = <<>> THEN b # <<>>
    ELSE IF b = <<>> THEN FALSE
    ELSE IF Head(a) = Head(b) THEN StrLess(Tail(a), Tail(b))
    ELSE Code(Head(a)) < Code(Head(b))

\* Mutant of sort: the vector is left in the order it was filled.
sort_Unsorted(q) == q

\* x put into its place in the sorted vector q.
RECURSIVE Insert(_, _)
Insert(x, q) ==
    IF q = <<>> THEN <<x>>
    ELSE IF StrLess(x, Head(q)) THEN <<x>> \o q
    ELSE <<Head(q)>> \o Insert(x, Tail(q))

\* Vec<String>::sort
RECURSIVE sort(_)
sort(q) == IF q = <<>> THEN <<>> ELSE Insert(Head(q), sort(Tail(q)))

\* Vec::dedup: consecutive equal elements collapse into one.
RECURSIVE dedup(_)
dedup(q) ==
    IF Len(q) <= 1 THEN q
    ELSE IF q[1] = q[2] THEN dedup(Tail(q))
    ELSE <<q[1]>> \o dedup(Tail(q))

Range(q) == {q[i] : i \in 1..Len(q)}

\* The orders in which read_dir may hand out the entries of a directory that
\* holds the files S.
Enumerations(S) == {q \in [1..Cardinality(S) -> S] : Range(q) = S}

(* --------------------------- modelled inputs --------------------------- *)

sEditor == <<"E", "d", "i", "t", "o", "r">>
seditor == <<"e", "d", "i", "t", "o", "r">>
sTargetCs == <<".", "T", "a", "r", "g", "e", "t", ".", "c", "s">>
sFoo == <<"F", "o", "o">>
sBar == <<"B", "a", "r">>
sBaz == <<"B", "a", "z">>
sQux == <<"Q", "u", "x">>

\* A project path and the disk under it: whether the path exists, whether it
\* has a parent directory, whether it has a file name (a path that ends in
\* `..` or is `.` has none) and the stem of that name, the file names under
\* Source/, and the clean-list paths that exist in the project directory.
Projects ==
    { [exists |-> TRUE, has_parent |-> TRUE, has_name |-> TRUE, stem |-> sFoo,
       source |-> {},
       artifacts |-> {"Binaries", "Saved", "<stem>.sln"}],
      [exists |-> TRUE, has_parent |-> TRUE, has_name |-> TRUE, stem |-> sFoo,
       source |-> {sBaz \o sEditor \o sTargetCs, sQux \o sEditor \o sTargetCs,
                   sFoo \o sTargetCs},
       artifacts |-> {".vs"}],
      [exists |-> FALSE, has_parent |-> FALSE, has_name |-> FALSE,
       stem |-> <<>>, source |-> {}, artifacts |-> {}] }

NoOverride == <<"None">>
Overrides ==
    { NoOverride, <<"Some", <<" ">>>>, <<"Some", <<" ", "Q", "u", "x", " ">>>> }

Modes == {"Standard", "CleanRebuild"}

(* --------------------------- target resolution ------------------------- *)

Ok(v) == <<"Ok", v>>
Err(e) == <<"Err", e>>
IsOk(r) == r[1] = "Ok"
IsErr(r) == r[1] = "Err"

\* An error message: the literal text of its format string and what is
\* interpolated into it.
ErrMsg(text, expected, listed) ==
    [text |-> text, expected |-> expected, listed |-> listed]

\* The filter of scan_editor_targets on a file name.
IsEditorTargetFile(f) == ends_with(f, sEditor \o sTargetCs)

\* build.rs scan_editor_targets on the entries read_dir hands out, in that
\* order: the files ending in Editor.Target.cs with .Target.cs stripped.  A
\* Source/ that is no directory is one without entries.
scan_editor_targets(entries) ==
    LET q == SelectSeq(entries, IsEditorTargetFile)
    IN  [i \in 1..Len(q) |-> strip_suffix(q[i], sTargetCs)]

\* Mutant of discover_editor_targets: the scan result is not sorted.
discover_editor_targets_Unsorted(p, entries) ==
    IF ~p.exists
    THEN Err(ErrMsg("Project file not found: ", <<>>, <<>>))
    ELSE IF ~p.has_parent
    THEN Err(ErrMsg("Cannot determine project directory", <<>>, <<>>))
    ELSE Ok(dedup(scan_editor_targets(entries)))

discover_editor_targets(p, entries) ==
    IF ~p.exists
    THEN Err(ErrMsg("Project file not found: ", <<>>, <<>>))
    ELSE IF ~p.has_parent
    THEN Err(ErrMsg("Cannot determine project directory", <<>>, <<>>))
    ELSE Ok(dedup(sort(scan_editor_targets(entries))))

\* Mutant of derive_editor_target: a lone candidate gets no rule of its own.
derive_editor_target_NoLoneRule(p, entries) ==
    LET d == discover_editor_targets(p, entries)
        editor_targets == d[2]
        expected == IF ends_with(to_lowercase(p.stem), seditor)
                    THEN p.stem
                    ELSE p.stem \o sEditor
    IN  IF IsErr(d) THEN d
        ELSE IF ~p.has_name
        THEN Err(ErrMsg("Invalid project file name", <<>>, <<>>))
        ELSE IF editor_targets = <<>> THEN Ok(expected)
        ELSE IF expected \in Range(editor_targets) THEN Ok(expected)
        ELSE Err(ErrMsg("Multiple editor targets found but none match ",
                        expected, editor_targets))

derive_editor_target(p, entries) ==
    LET d == discover_editor_targets(p, entries)
        editor_targets == d[2]
        expected == IF ends_with(to_lowercase(p.stem), seditor)
                    THEN p.stem
                    ELSE p.stem \o sEditor
    IN  IF IsErr(d) THEN d
        ELSE IF ~p.has_name
        THEN Err(ErrMsg("Invalid project file name", <<>>, <<>>))
        ELSE IF editor_targets = <<>> THEN Ok(expected)
        ELSE IF Len(editor_targets) = 1 THEN Ok(editor_targets[1])
        ELSE IF expected \in Range(editor_targets) THEN Ok(expected)
        ELSE Err(ErrMsg("Multiple editor targets found but none match ",
                        expected, editor_targets))

\* Mutant of is_ambiguous_target_error: it looks for another message.
is_ambiguous_target_error_WrongText(e) ==
    e.text = "Ambiguous editor targets: "

\* err.contains("Multiple editor targets found"): decided on the literal text
\* of the message.
is_ambiguous_target_error(e) ==
    e.text = "Multiple editor targets found but none match "

\* Mutant of ResolveTarget: discovery runs first, also under an override.
ResolveTarget_DiscoverFirst(ov, p, entries) ==
    LET d == derive_editor_target(p, entries)
    IN  IF IsOk(d) /\ ov[1] = "Some" /\ trim(ov[2]) # <<>>
        THEN Ok(trim(ov[2]))
        ELSE d

\* spawn_build's target_name: the trimmed override when it is non-blank,
\* else the derived target.
ResolveTarget(ov, p, entries) ==
    IF ov[1] = "Some" /\ trim(ov[2]) # <<>>
    THEN Ok(trim(ov[2]))
    ELSE derive_editor_target(p, entries)

(* ------------------------------- state -------------------------------- *)

VARIABLES
    project,        \* the project on disk the requests name
    ubt_exists,     \* UnrealBuildTool.dll exists under the engine root
    fs,             \* the clean-list paths that exist in the project directory
    last_req,       \* arguments of the last spawn_build call
    last_ret,       \* what the last spawn_build call returned
    prev_ret,       \* what the spawn_build call before it returned
    handle,         \* a BuildHandle has been returned to the caller
    finished,       \* BuildHandle.finished, as stored by the background task
    success,        \* BuildHandle.success, as stored by the background task
    cancel_flag,    \* BuildHandle.cancel_flag
    seen_finished,  \* the value of finished visible to the caller's thread
    seen_success,   \* the value of success visible to the caller's thread
    last_poll,      \* what the caller's last try_finished returned
    pc,             \* position of the background task
    mode,           \* BuildMode of the running build
    target_name,    \* resolved target of the running build
    clean_idx,      \* next entry of the clean list
    result,         \* what run_build_process returned
    regen,          \* the metadata-regeneration process
    child,          \* the compile process
    child_status,   \* exit status success bit of the compile process
    written,        \* lines the compile process wrote, per stream
    rd,             \* position of each reader task
    nread,          \* lines each reader task took from its pipe
    abort_req,      \* abort() was called on the reader task
    chan,           \* every line sent on the log channel, in send order
    removed,        \* paths removed by cleaning, in removal order
    cancel_seen,    \* the check at which the task read cancel_flag = true
    chan_at_cancel, \* the channel when the poll loop read cancel_flag = true
    cancel_at,      \* where the task stood when cancel() first set the flag
    spawns,         \* external processes launched: regeneration, compile
    calls,          \* the target resolutions made as steps of their own
    recv,           \* lines of the channel the caller has received
    drained,        \* the caller emptied the channel after try_finished
                    \* had returned Some
    build_state,    \* App.build_state
    build_handle,   \* App.build_handle is Some
    log_rx,         \* App.log_rx is Some
    logs,           \* App.logs
    log_scroll,     \* App.log_scroll
    auto_scroll_logs, \* App.auto_scroll_logs
    notified,       \* the desktop notifications raised since the last
                    \* build was started, in order
    poll_pc,        \* position of the UI thread inside poll_build
    builds,         \* number of start_build / start_clean_rebuild calls
    orphans         \* unfinished background tasks of earlier builds

vars ==
    <<project, ubt_exists, fs, last_req, last_ret, prev_ret, handle, finished,
      success, cancel_flag, seen_finished, seen_success, last_poll, pc, mode,
      target_name, clean_idx, result, regen, child, child_status, written, rd,
      nread, abort_req, chan, removed, cancel_seen, chan_at_cancel,
      cancel_at, spawns, calls, recv, drained, build_state, build_handle,
      log_rx, logs, log_scroll, auto_scroll_logs, notified, poll_pc, builds,
      orphans>>

\* The state of the App around the build core.
appVars ==
    <<build_state, build_handle, log_rx, logs, log_scroll, auto_scroll_logs,
      notified, poll_pc, builds, orphans>>

\* App::new().
AppNew ==
    /\ build_state = "Idle"
    /\ build_handle = FALSE
    /\ log_rx = FALSE
    /\ logs = <<>>
    /\ log_scroll = 0
    /\ auto_scroll_logs = TRUE
    /\ notified = <<>>
    /\ poll_pc = "idle"
    /\ builds = 0
    /\ orphans = 0

Streams == {"stdout", "stderr"}

\* Mutant of CleanList: Saved is removed before Binaries.
CleanList_SavedFirst ==
    << [kind |-> "directory", path |-> "Saved"],
       [kind |-> "directory", path |-> "Intermediate"],
       [kind |-> "directory", path |-> "Binaries"],
       [kind |-> "directory", path |-> ".vs"],
       [kind |-> "file", path |-> "<stem>.sln"],
       [kind |-> "file", path |-> "<stem>.sln"] >>

\* clean_project_artifacts: dirs_to_remove, then files_to_remove.  The two
\* solution-file candidates (project path with extension .sln, and
\* <project_dir>/<stem>.sln) name the same file.
CleanList ==
    << [kind |-> "directory", path |-> "Binaries"],
       [kind |-> "directory", path |-> "Intermediate"],
       [kind |-> "directory", path |-> "Saved"],
       [kind |-> "directory", path |-> ".vs"],
       [kind |-> "file", path |-> "<stem>.sln"],
       [kind |-> "file", path |-> "<stem>.sln"] >>

\* A line of the log channel.
Line(text, arg, n) == [text |-> text, arg |-> arg, n |-> n]
Count(q, text) == Cardinality({i \in 1..Len(q) : q[i].text = text})

NoResult == <<"None">>
NoRegen == [st |-> "none", ok |-> FALSE, out |-> <<>>, err |-> <<>>]
NoPoll == <<"None">>

Init ==
    /\ project \in Projects
    /\ ubt_exists \in BOOLEAN
    /\ fs = project.artifacts
    /\ last_req = <<NoOverride, "Standard">>
    /\ last_ret = <<"None">>
    /\ prev_ret = <<"None">>
    /\ handle = FALSE
    /\ finished = FALSE
    /\ success = FALSE
    /\ cancel_flag = FALSE
    /\ seen_finished = FALSE
    /\ seen_success = FALSE
    /\ last_poll = NoPoll
    /\ pc = "none"
    /\ mode = "Standard"
    /\ target_name = <<>>
    /\ clean_idx = 1
    /\ result = NoResult
    /\ regen = NoRegen
    /\ child = "none"
    /\ child_status = FALSE
    /\ written = [s \in Streams |-> 0]
    /\ rd = [s \in Streams |-> "none"]
    /\ nread = [s \in Streams |-> 0]
    /\ abort_req = [s \in Streams |-> FALSE]
    /\ chan = <<>>
    /\ removed = <<>>
    /\ cancel_seen = "none"
    /\ chan_at_cancel = <<>>
    /\ cancel_at = "never"
    /\ spawns = <<>>
    /\ calls = <<>>
    /\ recv = 0
    /\ drained = FALSE
    /\ AppNew

(* ------------------------------ the caller ----------------------------- *)

\* Mutant of SpawnBuildCheck: the target is resolved before the tool check.
SpawnBuildCheck_ResolveFirst(ov, entries) ==
    LET r == ResolveTarget(ov, project, entries)
    IN  IF IsErr(r) THEN r
        ELSE IF ~ubt_exists
        THEN Err(ErrMsg("UnrealBuildTool not found at ", <<>>, <<>>))
        ELSE r

\* spawn_build's answer for a request: the tool check, then target
\* resolution.
SpawnBuildCheck(ov, entries) ==
    IF ~ubt_exists
    THEN Err(ErrMsg("UnrealBuildTool not found at ", <<>>, <<>>))
    ELSE ResolveTarget(ov, project, entries)

\* spawn_build(project_path, engine_path, editor_target_override, tx, mode),
\* with the entries of Source/ in the order read_dir hands them out.
\* On Ok: the "Running:" line is sent, the three flags are created false and
\* the background task is spawned.
SpawnBuild(ov, m, entries) ==
    /\ ~handle
    /\ last_req' = <<ov, m>>
    /\ prev_ret' = last_ret
    /\ LET r == SpawnBuildCheck(ov, entries)
       IN  IF IsErr(r)
           THEN /\ last_ret' = r
                /\ UNCHANGED <<handle, finished, success, cancel_flag, pc,
                               mode, target_name, chan>>
           ELSE /\ last_ret' = Ok(<<>>)
                /\ chan' = Append(chan, Line("Running: ", <<m>>, 0))
                /\ finished' = FALSE
                /\ success' = FALSE
                /\ cancel_flag' = FALSE
                /\ handle' = TRUE
                /\ mode' = m
                /\ target_name' = r[2]
                /\ pc' = "start"
    /\ UNCHANGED <<appVars, calls, recv, drained, project, ubt_exists, fs, seen_finished, seen_success,
                   last_poll, clean_idx, result, regen, child, child_status,
                   written, rd, nread, abort_req, removed, cancel_seen,
                   chan_at_cancel, cancel_at, spawns>>

\* The phase of run_build_process a position of the task belongs to.
Phase(p) ==
    CASE p = "start" -> "before"
      [] p \in {"clean", "clean_check2"} -> "cleaning"
      [] p \in {"regen_launch", "regen_wait"} -> "regenerating"
      [] p = "spawn" -> "spawning"
      [] p \in {"poll_cancel", "poll_wait", "kill", "kill_send", "abort",
                "drain_stdout", "drain_stderr"} -> "compiling"
      [] p \in {"store_success", "store_finished"} -> "returned"
      [] OTHER -> "finished"

\* Mutant of Cancel: the call also marks the handle finished.
Cancel_MarksFinished ==
    /\ handle
    /\ cancel_flag' = TRUE
    /\ finished' = TRUE
    /\ cancel_at' = IF cancel_flag THEN cancel_at ELSE Phase(pc)
    /\ UNCHANGED <<appVars, calls, recv, drained, project, ubt_exists, fs, last_req, last_ret, prev_ret,
                   handle,
                   success, seen_finished, seen_success, last_poll,
                   pc, mode, target_name, clean_idx, result, regen, child,
                   child_status, written, rd, nread, abort_req, chan, removed,
                   cancel_seen, chan_at_cancel, spawns>>

\* Mutant of Cancel: each call flips the flag.
Cancel_Toggle ==
    /\ handle
    /\ cancel_flag' = ~cancel_flag
    /\ cancel_at' = IF cancel_flag THEN cancel_at ELSE Phase(pc)
    /\ UNCHANGED <<appVars, calls, recv, drained, project, ubt_exists, fs, last_req, last_ret, prev_ret,
                   handle, finished, success, seen_finished, seen_success,
                   last_poll, pc, mode, target_name, clean_idx, result, regen,
                   child, child_status, written, rd, nread, abort_req, chan,
                   removed, cancel_seen, chan_at_cancel, spawns>>

\* BuildHandle::cancel: a relaxed store of true.  The background task reads
\* the flag directly: a store that becomes visible late behaves as a later
\* call.  cancel_at records where the task stood at the first call.
Cancel ==
    /\ handle
    /\ cancel_flag' = TRUE
    /\ cancel_at' = IF cancel_flag THEN cancel_at ELSE Phase(pc)
    /\ UNCHANGED <<appVars, calls, recv, drained, project, ubt_exists, fs, last_req, last_ret, prev_ret,
                   handle,
                   finished, success, seen_finished, seen_success, last_poll,
                   pc, mode, target_name, clean_idx, result, regen, child,
                   child_status, written, rd, nread, abort_req, chan, removed,
                   cancel_seen, chan_at_cancel, spawns>>

\* The stores to finished and success are Ordering::Relaxed, and so are the
\* caller's loads: each store becomes visible to the caller's thread on its
\* own, in either order.
VisibleFinished ==
    /\ seen_finished # finished
    /\ seen_finished' = finished
    /\ UNCHANGED <<appVars, calls, recv, drained, project, ubt_exists, fs, last_req, last_ret, prev_ret,
                   handle,
                   finished, success, cancel_flag, seen_success, last_poll,
                   pc, mode, target_name, clean_idx, result, regen, child,
                   child_status, written, rd, nread, abort_req, chan, removed,
                   cancel_seen, chan_at_cancel, cancel_at, spawns>>

VisibleSuccess ==
    /\ seen_success # success
    /\ seen_success' = success
    /\ UNCHANGED <<appVars, calls, recv, drained, project, ubt_exists, fs, last_req, last_ret, prev_ret,
                   handle,
                   finished, success, cancel_flag, seen_finished, last_poll,
                   pc, mode, target_name, clean_idx, result, regen, child,
                   child_status, written, rd, nread, abort_req, chan, removed,
                   cancel_seen, chan_at_cancel, cancel_at, spawns>>

\* BuildHandle::try_finished, on the caller's thread.
try_finished ==
    IF seen_finished THEN <<"Some", seen_success>> ELSE <<"None">>

TryFinished ==
    /\ handle
    /\ last_poll' = try_finished
    /\ UNCHANGED <<appVars, calls, recv, drained, project, ubt_exists, fs, last_req, last_ret, prev_ret,
                   handle,
                   finished, success, cancel_flag, seen_finished,
                   seen_success, pc, mode, target_name, clean_idx, result,
                   regen, child, child_status, written, rd, nread, abort_req,
                   chan, removed, cancel_seen, chan_at_cancel, cancel_at,
                   spawns>>

(* ------------------------- the background task ------------------------ *)

reqVars ==
    <<project, ubt_exists, last_req, last_ret, prev_ret, handle, mode,
      target_name, calls, recv, drained, appVars>>
callerVars == <<seen_finished, seen_success, last_poll, cancel_flag, cancel_at>>
readerVars == <<rd, nread, abort_req>>

\* Mutants of CancelOutcome: a cancellation reported as success, and one
\* reported as an error.
CancelOutcome_AsSuccess == Ok(TRUE)
CancelOutcome_AsError == Err(ErrMsg("Build cancelled", <<>>, <<>>))

\* `return Ok(false)` of the three cancellation branches.
CancelOutcome == Ok(FALSE)

\* The regeneration outputs the model draws from: stdout and stderr lines.
RegenOutputs ==
    { [out |-> <<>>, err |-> <<>>],
      [out |-> << <<"o">>, <<" ">>, <<"p">> >>, err |-> << <<"e">> >>] }

\* The lines of q that are not blank after trimming, as log lines.
RECURSIVE NonBlankLines(_, _)
NonBlankLines(text, q) ==
    IF q = <<>> THEN <<>>
    ELSE (IF trim(Head(q)) # <<>> THEN <<Line(text, Head(q), 0)>> ELSE <<>>)
         \o NonBlankLines(text, Tail(q))

\* run_build_process returns r: the future is dropped, and with it the Child
\* (kill_on_drop(true)).
Return(r) ==
    /\ result' = r
    /\ pc' = "store_success"
    /\ child' = IF child = "running" THEN "killed" ELSE child

\* Mutant of TaskBegin: the CleanRebuild branch does not read the cancel
\* flag before cleaning.
TaskBegin_NoCancelCheck ==
    /\ pc = "start"
    /\ IF mode = "CleanRebuild"
       THEN /\ chan' = Append(chan,
                   Line("Clean rebuild: removing temporary project files...",
                        <<>>, 0))
            /\ pc' = "clean"
       ELSE /\ pc' = "spawn"
            /\ UNCHANGED chan
    /\ UNCHANGED <<reqVars, callerVars, readerVars, fs, finished, success,
                   clean_idx, regen, child_status, written, removed,
                   chan_at_cancel, spawns, cancel_seen, result, child>>

\* Mutant of TaskBegin: Standard mode enters cleaning as well.
TaskBegin_AlwaysClean ==
    /\ pc = "start"
    /\ IF cancel_flag /\ mode = "CleanRebuild"
       THEN /\ chan' = Append(chan,
                   Line("Clean rebuild cancelled before starting.", <<>>, 0))
            /\ cancel_seen' = "before_clean"
            /\ Return(CancelOutcome)
       ELSE /\ chan' = Append(chan,
                   Line("Clean rebuild: removing temporary project files...",
                        <<>>, 0))
            /\ pc' = "clean"
            /\ UNCHANGED <<cancel_seen, result, child>>
    /\ UNCHANGED <<reqVars, callerVars, readerVars, fs, finished, success,
                   clean_idx, regen, child_status, written, removed,
                   chan_at_cancel, spawns>>

\* The task starts.  CleanRebuild: the first cancel check, then the cleaning
\* announcement.  Standard: straight to the compile command.
TaskBegin ==
    /\ pc = "start"
    /\ IF mode = "CleanRebuild"
       THEN IF cancel_flag
            THEN /\ chan' = Append(chan,
                        Line("Clean rebuild cancelled before starting.", <<>>, 0))
                 /\ cancel_seen' = "before_clean"
                 /\ Return(CancelOutcome)
            ELSE /\ chan' = Append(chan,
                        Line("Clean rebuild: removing temporary project files...",
                             <<>>, 0))
                 /\ pc' = "clean"
                 /\ UNCHANGED <<cancel_seen, result, child>>
       ELSE /\ pc' = "spawn"
            /\ UNCHANGED <<chan, cancel_seen, result, child>>
    /\ UNCHANGED <<reqVars, callerVars, readerVars, fs, finished, success,
                   clean_idx, regen, child_status, written, removed,
                   chan_at_cancel, spawns>>

\* Mutant of TaskClean: an entry of the list that is absent is an error.
TaskClean_ErrorOnAbsent ==
    /\ pc = "clean"
    /\ LET e == CleanList[clean_idx]
           next == IF clean_idx = Len(CleanList) THEN "clean_check2"
                   ELSE "clean"
       IN  IF ~project.has_parent \/ e.path \notin fs
           THEN /\ Return(Err(ErrMsg("Failed to remove ", <<e.path>>, <<>>)))
                /\ UNCHANGED <<chan, fs, removed, clean_idx>>
           ELSE /\ chan' = Append(chan,
                       Line("Removing " \o e.kind \o ": ", <<e.path>>, 0))
                /\ fs' = fs \ {e.path}
                /\ removed' = Append(removed, e.path)
                /\ clean_idx' = clean_idx + 1
                /\ pc' = next
                /\ UNCHANGED <<result, child>>
    /\ UNCHANGED <<reqVars, callerVars, readerVars, finished, success, regen,
                   child_status, written, cancel_seen, chan_at_cancel, spawns>>

\* Mutant of TaskClean: a "Removing" line is sent for every entry of the
\* list, present or absent.
TaskClean_AnnounceAbsent ==
    /\ pc = "clean"
    /\ IF ~project.has_parent
       THEN /\ Return(Err(ErrMsg(
                   "Could not determine project directory for clean rebuild.",
                   <<>>, <<>>)))
            /\ UNCHANGED <<chan, fs, removed, clean_idx>>
       ELSE LET e == CleanList[clean_idx]
                next == IF clean_idx = Len(CleanList) THEN "clean_check2"
                        ELSE "clean"
            IN  /\ chan' = Append(chan,
                       Line("Removing " \o e.kind \o ": ", <<e.path>>, 0))
                /\ IF e.path \in fs
                   THEN \/ /\ fs' = fs \ {e.path}
                           /\ removed' = Append(removed, e.path)
                           /\ clean_idx' = clean_idx + 1
                           /\ pc' = next
                           /\ UNCHANGED <<result, child>>
                        \/ /\ Return(Err(ErrMsg("Failed to remove ",
                                                <<e.path>>, <<>>)))
                           /\ UNCHANGED <<fs, removed, clean_idx>>
                   ELSE /\ clean_idx' = clean_idx + 1
                        /\ pc' = next
                        /\ UNCHANGED <<fs, removed, result, child>>
    /\ UNCHANGED <<reqVars, callerVars, readerVars, finished, success, regen,
                   child_status, written, cancel_seen, chan_at_cancel, spawns>>

\* Mutant of TaskClean: a file of the list is removed without asking whether
\* it exists, so an absent one is announced and fails.
TaskClean_FilesUnchecked ==
    /\ pc = "clean"
    /\ IF ~project.has_parent
       THEN /\ Return(Err(ErrMsg(
                   "Could not determine project directory for clean rebuild.",
                   <<>>, <<>>)))
            /\ UNCHANGED <<chan, fs, removed, clean_idx>>
       ELSE LET e == CleanList[clean_idx]
                next == IF clean_idx = Len(CleanList) THEN "clean_check2"
                        ELSE "clean"
            IN  IF e.path \in fs \/ e.kind = "file"
                THEN /\ chan' = Append(chan,
                            Line("Removing " \o e.kind \o ": ", <<e.path>>, 0))
                     /\ \/ /\ e.path \in fs
                           /\ fs' = fs \ {e.path}
                           /\ removed' = Append(removed, e.path)
                           /\ clean_idx' = clean_idx + 1
                           /\ pc' = next
                           /\ UNCHANGED <<result, child>>
                        \/ /\ Return(Err(ErrMsg("Failed to remove ",
                                                <<e.path>>, <<>>)))
                           /\ UNCHANGED <<fs, removed, clean_idx>>
                ELSE /\ clean_idx' = clean_idx + 1
                     /\ pc' = next
                     /\ UNCHANGED <<chan, fs, removed, result, child>>
    /\ UNCHANGED <<reqVars, callerVars, readerVars, finished, success, regen,
                   child_status, written, cancel_seen, chan_at_cancel, spawns>>

\* clean_project_artifacts, one entry of the list per step.
TaskClean ==
    /\ pc = "clean"
    /\ IF ~project.has_parent
       THEN /\ Return(Err(ErrMsg(
                   "Could not determine project directory for clean rebuild.",
                   <<>>, <<>>)))
            /\ UNCHANGED <<chan, fs, removed, clean_idx>>
       ELSE LET e == CleanList[clean_idx]
                next == IF clean_idx = Len(CleanList) THEN "clean_check2"
                        ELSE "clean"
            IN  IF e.path \in fs
                THEN /\ chan' = Append(chan,
                            Line("Removing " \o e.kind \o ": ", <<e.path>>, 0))
                     /\ \/ /\ fs' = fs \ {e.path}
                           /\ removed' = Append(removed, e.path)
                           /\ clean_idx' = clean_idx + 1
                           /\ pc' = next
                           /\ UNCHANGED <<result, child>>
                        \/ /\ Return(Err(ErrMsg("Failed to remove ",
                                                <<e.path>>, <<>>)))
                           /\ UNCHANGED <<fs, removed, clean_idx>>
                ELSE /\ clean_idx' = clean_idx + 1
                     /\ pc' = next
                     /\ UNCHANGED <<chan, fs, removed, result, child>>
    /\ UNCHANGED <<reqVars, callerVars, readerVars, finished, success, regen,
                   child_status, written, cancel_seen, chan_at_cancel, spawns>>

\* Mutant of TaskCleanCheck2: no cancel check between cleaning and
\* regeneration.
TaskCleanCheck2_NoCheck ==
    /\ pc = "clean_check2"
    /\ chan' = Append(chan,
            Line("Clean rebuild: regenerating project files...", <<>>, 0))
    /\ pc' = "regen_launch"
    /\ UNCHANGED <<reqVars, callerVars, readerVars, fs, finished, success,
                   clean_idx, regen, child_status, written, removed,
                   chan_at_cancel, spawns, cancel_seen, result, child>>

\* The cancel check after cleaning, then the regeneration announcement.
TaskCleanCheck2 ==
    /\ pc = "clean_check2"
    /\ IF cancel_flag
       THEN /\ chan' = Append(chan,
                   Line("Clean rebuild cancelled before project file generation.",
                        <<>>, 0))
            /\ cancel_seen' = "before_regen"
            /\ Return(CancelOutcome)
       ELSE /\ chan' = Append(chan,
                   Line("Clean rebuild: regenerating project files...", <<>>, 0))
            /\ pc' = "regen_launch"
            /\ UNCHANGED <<cancel_seen, result, child>>
    /\ UNCHANGED <<reqVars, callerVars, readerVars, fs, finished, success,
                   clean_idx, regen, child_status, written, removed,
                   chan_at_cancel, spawns>>

\* regenerate_project_files: cmd.output() launches the process, or fails to.
TaskRegenLaunch ==
    /\ pc = "regen_launch"
    /\ \/ /\ regen' = [NoRegen EXCEPT !.st = "running"]
          /\ spawns' = Append(spawns, "regen")
          /\ pc' = "regen_wait"
          /\ UNCHANGED <<result, child>>
       \/ /\ Return(Err(ErrMsg("Failed to regenerate project files: ",
                               <<>>, <<>>)))
          /\ UNCHANGED <<regen, spawns>>
    /\ UNCHANGED <<reqVars, callerVars, readerVars, fs, finished, success,
                   clean_idx, child_status, written, chan, removed,
                   cancel_seen, chan_at_cancel>>

\* The regeneration process exits with a status and its captured output.
RegenExit(ok, o) ==
    /\ regen.st = "running"
    /\ regen' = [st |-> "exited", ok |-> ok, out |-> o.out, err |-> o.err]
    /\ UNCHANGED <<reqVars, callerVars, readerVars, fs, finished, success, pc,
                   clean_idx, result, child, child_status, written, chan,
                   removed, cancel_seen, chan_at_cancel, spawns>>

\* Mutant of TaskRegenDone: the exit status of the regeneration is ignored.
TaskRegenDone_IgnoreStatus ==
    /\ pc = "regen_wait"
    /\ regen.st = "exited"
    /\ chan' = chan \o NonBlankLines("regen stdout", regen.out)
                    \o NonBlankLines("regen stderr", regen.err)
    /\ pc' = "spawn"
    /\ UNCHANGED <<reqVars, callerVars, readerVars, fs, finished, success,
                   clean_idx, regen, child_status, written, removed,
                   cancel_seen, chan_at_cancel, spawns, result, child>>

\* Mutant of TaskRegenDone: the stderr lines are forwarded before the stdout
\* lines.
TaskRegenDone_StderrFirst ==
    /\ pc = "regen_wait"
    /\ regen.st = "exited"
    /\ chan' = chan \o NonBlankLines("regen stderr", regen.err)
                    \o NonBlankLines("regen stdout", regen.out)
    /\ IF regen.ok
       THEN /\ pc' = "spawn"
            /\ UNCHANGED <<result, child>>
       ELSE Return(Err(ErrMsg("Project file generation failed with status: ",
                              <<>>, <<>>)))
    /\ UNCHANGED <<reqVars, callerVars, readerVars, fs, finished, success,
                   clean_idx, regen, child_status, written, removed,
                   cancel_seen, chan_at_cancel, spawns>>

\* regenerate_project_files after output(): forward the non-blank lines of
\* stdout, then of stderr, then decide on the exit status.
TaskRegenDone ==
    /\ pc = "regen_wait"
    /\ regen.st = "exited"
    /\ chan' = chan \o NonBlankLines("regen stdout", regen.out)
                    \o NonBlankLines("regen stderr", regen.err)
    /\ IF regen.ok
       THEN /\ pc' = "spawn"
            /\ UNCHANGED <<result, child>>
       ELSE Return(Err(ErrMsg("Project file generation failed with status: ",
                              <<>>, <<>>)))
    /\ UNCHANGED <<reqVars, callerVars, readerVars, fs, finished, success,
                   clean_idx, regen, child_status, written, removed,
                   cancel_seen, chan_at_cancel, spawns>>

\* cmd.spawn() of the compile command and tokio::spawn of the two readers.
TaskSpawn ==
    /\ pc = "spawn"
    /\ \/ /\ child' = "running"
          /\ spawns' = Append(spawns, "compile")
          /\ rd' = [s \in Streams |-> "reading"]
          /\ pc' = "poll_cancel"
          /\ UNCHANGED result
       \/ /\ Return(Err(ErrMsg("Failed to spawn dotnet: ", <<>>, <<>>)))
          /\ UNCHANGED <<spawns, rd>>
    /\ UNCHANGED <<reqVars, callerVars, nread, abort_req, fs, finished,
                   success, clean_idx, regen, child_status, written, chan,
                   removed, cancel_seen, chan_at_cancel>>

\* Mutant of TaskPollCancel: the poll loop does not read the cancel flag.
TaskPollCancel_IgnoreFlag ==
    /\ pc = "poll_cancel"
    /\ pc' = "poll_wait"
    /\ UNCHANGED <<reqVars, callerVars, readerVars, fs, finished, success,
                   clean_idx, result, regen, child, child_status, written,
                   chan, removed, spawns, cancel_seen, chan_at_cancel>>

\* Top of the poll loop: cancel_flag.load().
TaskPollCancel ==
    /\ pc = "poll_cancel"
    /\ IF cancel_flag
       THEN /\ pc' = "kill"
            /\ cancel_seen' = "poll"
            /\ chan_at_cancel' = chan
       ELSE /\ pc' = "poll_wait"
            /\ UNCHANGED <<cancel_seen, chan_at_cancel>>
    /\ UNCHANGED <<reqVars, callerVars, readerVars, fs, finished, success,
                   clean_idx, result, regen, child, child_status, written,
                   chan, removed, spawns>>

\* Mutant of TaskKill: the child is left running.
TaskKill_NoKill ==
    /\ pc = "kill"
    /\ pc' = "kill_send"
    /\ UNCHANGED <<reqVars, callerVars, readerVars, fs, finished, success,
                   clean_idx, result, regen, child, child_status, written,
                   chan, removed, cancel_seen, chan_at_cancel, spawns>>

\* child.kill().await
TaskKill ==
    /\ pc = "kill"
    /\ child' = IF child = "running" THEN "killed" ELSE child
    /\ pc' = "kill_send"
    /\ UNCHANGED <<reqVars, callerVars, readerVars, fs, finished, success,
                   clean_idx, result, regen, child_status, written, chan,
                   removed, cancel_seen, chan_at_cancel, spawns>>

\* tx.send("Build process killed.")
TaskKillSend ==
    /\ pc = "kill_send"
    /\ chan' = Append(chan, Line("Build process killed.", <<>>, 0))
    /\ pc' = "abort"
    /\ UNCHANGED <<reqVars, callerVars, readerVars, fs, finished, success,
                   clean_idx, result, regen, child, child_status, written,
                   removed, cancel_seen, chan_at_cancel, spawns>>

\* stdout_task.abort(); stderr_task.abort(); return Ok(false)
TaskAbort ==
    /\ pc = "abort"
    /\ abort_req' = [s \in Streams |-> TRUE]
    /\ Return(CancelOutcome)
    /\ UNCHANGED <<reqVars, callerVars, rd, nread, fs, finished, success,
                   clean_idx, regen, child_status, written, chan, removed,
                   cancel_seen, chan_at_cancel, spawns>>

\* Mutant of TaskTryWait: a compile process that exited with a failure status
\* is spawned again.
TaskTryWait_RetryOnFailure ==
    /\ pc = "poll_wait"
    /\ \/ /\ child = "exited"
          /\ pc' = IF child_status THEN "drain_stdout" ELSE "spawn"
          /\ UNCHANGED <<result, child>>
       \/ /\ child = "running"
          /\ pc' = "poll_cancel"
          /\ UNCHANGED <<result, child>>
       \/ Return(Err(ErrMsg("Error waiting for process: ", <<>>, <<>>)))
    /\ UNCHANGED <<reqVars, callerVars, readerVars, fs, finished, success,
                   clean_idx, regen, child_status, written, chan, removed,
                   cancel_seen, chan_at_cancel, spawns>>

\* Mutant of TaskTryWait: a compile process found still running is given up
\* on (a timeout): the run returns Ok(false) and drops the child.
TaskTryWait_Timeout ==
    /\ pc = "poll_wait"
    /\ \/ /\ child = "exited"
          /\ pc' = "drain_stdout"
          /\ UNCHANGED <<result, child>>
       \/ /\ child = "running"
          /\ Return(Ok(FALSE))
       \/ Return(Err(ErrMsg("Error waiting for process: ", <<>>, <<>>)))
    /\ UNCHANGED <<reqVars, callerVars, readerVars, fs, finished, success,
                   clean_idx, regen, child_status, written, chan, removed,
                   cancel_seen, chan_at_cancel, spawns>>

\* child.try_wait(): Ok(Some(status)), Ok(None) followed by the sleep, or Err.
TaskTryWait ==
    /\ pc = "poll_wait"
    /\ \/ /\ child = "exited"
          /\ pc' = "drain_stdout"
          /\ UNCHANGED <<result, child>>
       \/ /\ child = "running"
          /\ pc' = "poll_cancel"
          /\ UNCHANGED <<result, child>>
       \/ Return(Err(ErrMsg("Error waiting for process: ", <<>>, <<>>)))
    /\ UNCHANGED <<reqVars, callerVars, readerVars, fs, finished, success,
                   clean_idx, regen, child_status, written, chan, removed,
                   cancel_seen, chan_at_cancel, spawns>>

\* stdout_task.await
TaskDrainStdout ==
    /\ pc = "drain_stdout"
    /\ rd["stdout"] \in {"done", "aborted"}
    /\ pc' = "drain_stderr"
    /\ UNCHANGED <<reqVars, callerVars, readerVars, fs, finished, success,
                   clean_idx, result, regen, child, child_status, written,
                   chan, removed, cancel_seen, chan_at_cancel, spawns>>

\* stderr_task.await; return Ok(status.success())
TaskDrainStderr ==
    /\ pc = "drain_stderr"
    /\ rd["stderr"] \in {"done", "aborted"}
    /\ Return(Ok(child_status))
    /\ UNCHANGED <<reqVars, callerVars, readerVars, fs, finished, success,
                   clean_idx, regen, child_status, written, chan, removed,
                   cancel_seen, chan_at_cancel, spawns>>

\* The value spawn_build's task stores in success for a result.
Outcome(r) == IF IsOk(r) THEN r[2] ELSE FALSE

\* Mutant of TaskStoreSuccess: finished is stored before the result is
\* looked at.
TaskStoreSuccess_FinishedFirst ==
    /\ pc = "store_success"
    /\ finished' = TRUE
    /\ pc' = "store_finished"
    /\ UNCHANGED <<reqVars, callerVars, readerVars, fs, success, clean_idx,
                   result, regen, child, child_status, written, chan, removed,
                   cancel_seen, chan_at_cancel, spawns>>

\* match result { Ok(b) => success.store(b), Err(e) => { send; store(false) } }
TaskStoreSuccess ==
    /\ pc = "store_success"
    /\ chan' = IF IsErr(result)
               THEN Append(chan, Line("Build error: ", <<result[2].text>>, 0))
               ELSE chan
    /\ success' = Outcome(result)
    /\ pc' = "store_finished"
    /\ UNCHANGED <<reqVars, callerVars, readerVars, fs, finished, clean_idx,
                   result, regen, child, child_status, written, removed,
                   cancel_seen, chan_at_cancel, spawns>>

\* finished.store(true)
TaskStoreFinished ==
    /\ pc = "store_finished"
    /\ finished' = TRUE
    /\ pc' = "done"
    /\ UNCHANGED <<reqVars, callerVars, readerVars, fs, success, clean_idx,
                   result, regen, child, child_status, written, chan, removed,
                   cancel_seen, chan_at_cancel, spawns>>

(* ------------------ the compile process and the readers ---------------- *)

\* The compile process writes one more line to one of its streams.
ChildWrite(s) ==
    /\ child = "running"
    /\ written["stdout"] + written["stderr"] < MaxLines
    /\ written' = [written EXCEPT ![s] = @ + 1]
    /\ UNCHANGED <<reqVars, callerVars, readerVars, fs, finished, success, pc,
                   clean_idx, result, regen, child, child_status, chan,
                   removed, cancel_seen, chan_at_cancel, spawns>>

\* The compile process exits by itself.
ChildExit(ok) ==
    /\ child = "running"
    /\ child' = "exited"
    /\ child_status' = ok
    /\ UNCHANGED <<reqVars, callerVars, readerVars, fs, finished, success, pc,
                   clean_idx, result, regen, written, chan, removed,
                   cancel_seen, chan_at_cancel, spawns>>

\* Mutant of ReaderForward: the reader forwards the newest line of its pipe
\* and skips the ones before it.
ReaderForward_NewestOnly(s) ==
    /\ rd[s] = "reading"
    /\ nread[s] < written[s]
    /\ nread' = [nread EXCEPT ![s] = written[s]]
    /\ chan' = Append(chan, Line(s, <<>>, written[s]))
    /\ UNCHANGED <<reqVars, callerVars, rd, abort_req, fs, finished, success,
                   pc, clean_idx, result, regen, child, child_status, written,
                   removed, cancel_seen, chan_at_cancel, spawns>>

\* One iteration of a reader loop: next_line() returns Ok(Some(line)) and the
\* line is sent.  A reader whose abort was requested may still be inside its
\* current poll and forward what its pipe holds.
ReaderForward(s) ==
    /\ rd[s] = "reading"
    /\ nread[s] < written[s]
    /\ nread' = [nread EXCEPT ![s] = @ + 1]
    /\ chan' = Append(chan, Line(s, <<>>, nread[s] + 1))
    /\ UNCHANGED <<reqVars, callerVars, rd, abort_req, fs, finished, success,
                   pc, clean_idx, result, regen, child, child_status, written,
                   removed, cancel_seen, chan_at_cancel, spawns>>

\* next_line() returns Ok(None): the pipe is empty and its write end closed.
ReaderEof(s) ==
    /\ rd[s] = "reading"
    /\ nread[s] = written[s]
    /\ child \in {"exited", "killed"}
    /\ rd' = [rd EXCEPT ![s] = "done"]
    /\ UNCHANGED <<reqVars, callerVars, nread, abort_req, fs, finished,
                   success, pc, clean_idx, result, regen, child, child_status,
                   written, chan, removed, cancel_seen, chan_at_cancel, spawns>>

\* Mutant of ReaderError: a failed read is reported as a build error.
ReaderError_Reported(s) ==
    /\ rd[s] = "reading"
    /\ nread[s] < written[s]
    /\ rd' = [rd EXCEPT ![s] = "done"]
    /\ chan' = Append(chan, Line("Build error: ", <<s>>, 0))
    /\ UNCHANGED <<reqVars, callerVars, nread, abort_req, fs, finished,
                   success, pc, clean_idx, result, regen, child, child_status,
                   written, removed, cancel_seen, chan_at_cancel, spawns>>

\* next_line() returns Err on the next line (an I/O error, or bytes that are
\* not UTF-8): `while let Ok(Some(line))` ends the loop.
ReaderError(s) ==
    /\ rd[s] = "reading"
    /\ nread[s] < written[s]
    /\ rd' = [rd EXCEPT ![s] = "done"]
    /\ UNCHANGED <<reqVars, callerVars, nread, abort_req, fs, finished,
                   success, pc, clean_idx, result, regen, child, child_status,
                   written, chan, removed, cancel_seen, chan_at_cancel, spawns>>

\* An aborted reader stops at its next await.
ReaderAborted(s) ==
    /\ rd[s] = "reading"
    /\ abort_req[s]
    /\ rd' = [rd EXCEPT ![s] = "aborted"]
    /\ UNCHANGED <<reqVars, callerVars, nread, abort_req, fs, finished,
                   success, pc, clean_idx, result, regen, child, child_status,
                   written, chan, removed, cancel_seen, chan_at_cancel, spawns>>

(* ---------------------------- specification ---------------------------- *)

TaskStep ==
    \/ TaskBegin
    \/ TaskClean
    \/ TaskCleanCheck2
    \/ TaskRegenLaunch
    \/ TaskRegenDone
    \/ TaskSpawn
    \/ TaskPollCancel
    \/ TaskKill
    \/ TaskKillSend
    \/ TaskAbort
    \/ TaskTryWait
    \/ TaskDrainStdout
    \/ TaskDrainStderr
    \/ TaskStoreSuccess
    \/ TaskStoreFinished

Next ==
    \/ \E ov \in Overrides, m \in Modes,
             entries \in Enumerations(project.source) :
          SpawnBuild(ov, m, entries)
    \/ Cancel
    \/ VisibleFinished
    \/ VisibleSuccess
    \/ TryFinished
    \/ TaskStep
    \/ \E ok \in BOOLEAN, o \in RegenOutputs : RegenExit(ok, o)
    \/ \E s \in Streams : ChildWrite(s)
    \/ \E ok \in BOOLEAN : ChildExit(ok)
    \/ \E s \in Streams : ReaderForward(s)
    \/ \E s \in Streams : ReaderEof(s)
    \/ \E s \in Streams : ReaderError(s)
    \/ \E s \in Streams : ReaderAborted(s)

Spec == Init /\ [][Next]_vars

(* --------------------- the caller's end of the channel ----------------- *)

\* The receiving loop of a caller (app.rs poll_build: rx.try_recv() until
\* Empty).  What try_recv sees of the sends of other threads is not ordered
\* with the caller's relaxed loads of the flags: a drain receives the lines
\* up to some place k of the channel, at least the lines it had and the
\* "Running:" line its own thread sent.
Drain(k) ==
    /\ handle
    /\ k >= recv
    /\ k >= 1
    /\ k <= Len(chan)
    /\ recv' = k
    /\ drained' = (drained \/ last_poll[1] = "Some")
    /\ UNCHANGED <<appVars, calls, project, ubt_exists, fs, last_req, last_ret,
                   prev_ret, handle, finished, success, cancel_flag,
                   seen_finished, seen_success, last_poll, pc, mode,
                   target_name, clean_idx, result, regen, child, child_status,
                   written, rd, nread, abort_req, chan, removed, cancel_seen,
                   chan_at_cancel, cancel_at, spawns>>

\* Builds whose compile process writes nothing, with a caller that polls and
\* drains.
DrainInit == Init /\ ubt_exists

DrainNext ==
    \/ \E ov \in Overrides, m \in Modes,
             entries \in Enumerations(project.source) :
          SpawnBuild(ov, m, entries)
    \/ Cancel
    \/ VisibleFinished
    \/ VisibleSuccess
    \/ TryFinished
    \/ \E k \in 1..Len(chan) : Drain(k)
    \/ TaskStep
    \/ \E ok \in BOOLEAN, o \in RegenOutputs : RegenExit(ok, o)
    \/ \E ok \in BOOLEAN : ChildExit(ok)
    \/ \E s \in Streams : ReaderEof(s)
    \/ \E s \in Streams : ReaderAborted(s)

DrainSpec == DrainInit /\ [][DrainNext]_vars

(* ----------------------- resolution on its own ------------------------- *)

\* The project paths, Source/ contents and overrides target resolution is
\* applied to: Foo.uproject, FooEditor.uproject, FooEDITOR.uproject, a path
\* without a file name, a path without a parent, and a missing file.
sEDITOR == <<"E", "D", "I", "T", "O", "R">>
ResolvePaths ==
    { [exists |-> TRUE, has_parent |-> TRUE, has_name |-> TRUE, stem |-> sFoo],
      [exists |-> TRUE, has_parent |-> TRUE, has_name |-> TRUE,
       stem |-> sFoo \o sEditor],
      [exists |-> TRUE, has_parent |-> TRUE, has_name |-> TRUE,
       stem |-> sFoo \o sEDITOR],
      [exists |-> TRUE, has_parent |-> TRUE, has_name |-> FALSE,
       stem |-> <<>>],
      [exists |-> TRUE, has_parent |-> FALSE, has_name |-> FALSE,
       stem |-> <<>>],
      [exists |-> FALSE, has_parent |-> TRUE, has_name |-> TRUE,
       stem |-> sFoo] }

SourceSets ==
    { {},
      {sBaz \o sEditor \o sTargetCs},
      {sFoo \o sEditor \o sTargetCs, sBar \o sEditor \o sTargetCs},
      {sBaz \o sEditor \o sTargetCs, sQux \o sEditor \o sTargetCs},
      {sBaz \o sEditor \o sTargetCs, sFoo \o sTargetCs},
      {sBaz \o sEditor \o sTargetCs, sQux \o sEditor \o sTargetCs,
       sFoo \o sTargetCs} }

ResolveProjects ==
    { [exists |-> q.exists, has_parent |-> q.has_parent,
       has_name |-> q.has_name, stem |-> q.stem, source |-> src,
       artifacts |-> {}] : q \in ResolvePaths, src \in SourceSets }

ResolveOverrides == Overrides \cup { <<"Some", sQux>> }

\* Whether a resolution reads the Source/ directory: derive_editor_target is
\* called, and discover_editor_targets gets past its two early returns.
Scans(ov, p) ==
    /\ ~(ov[1] = "Some" /\ trim(ov[2]) # <<>>)
    /\ p.exists
    /\ p.has_parent

\* The target_name computation of spawn_build as a step of its own: what it
\* was given, the directory listing it read if it read one, and its result.
Resolve(ov, entries) ==
    /\ Len(calls) < MaxCalls
    /\ calls' = Append(calls,
            [ov |-> ov,
             source |-> project.source,
             listing |-> IF Scans(ov, project) THEN <<"Some", entries>>
                         ELSE <<"None">>,
             ret |-> ResolveTarget(ov, project, entries)])
    /\ UNCHANGED <<project, ubt_exists, fs, last_req, last_ret, prev_ret,
                   handle, finished, success, cancel_flag, seen_finished,
                   seen_success, last_poll, pc, mode, target_name, clean_idx,
                   result, regen, child, child_status, written, rd, nread,
                   abort_req, chan, removed, cancel_seen, chan_at_cancel,
                   cancel_at, spawns, recv, drained, appVars>>

\* The contents of Source/ change before a resolution.
SourceChange(src) ==
    /\ Len(calls) < MaxCalls
    /\ src # project.source
    /\ project' = [project EXCEPT !.source = src]
    /\ UNCHANGED <<appVars, calls, recv, drained, ubt_exists, fs, last_req, last_ret,
                   prev_ret,
                   handle, finished, success, cancel_flag, seen_finished,
                   seen_success, last_poll, pc, mode, target_name, clean_idx,
                   result, regen, child, child_status, written, rd, nread,
                   abort_req, chan, removed, cancel_seen, chan_at_cancel,
                   cancel_at, spawns>>

ResolveInit ==
    /\ project \in ResolveProjects
    /\ ubt_exists = TRUE
    /\ fs = project.artifacts
    /\ last_req = <<NoOverride, "Standard">>
    /\ last_ret = <<"None">>
    /\ prev_ret = <<"None">>
    /\ handle = FALSE
    /\ finished = FALSE
    /\ success = FALSE
    /\ cancel_flag = FALSE
    /\ seen_finished = FALSE
    /\ seen_success = FALSE
    /\ last_poll = NoPoll
    /\ pc = "none"
    /\ mode = "Standard"
    /\ target_name = <<>>
    /\ clean_idx = 1
    /\ result = NoResult
    /\ regen = NoRegen
    /\ child = "none"
    /\ child_status = FALSE
    /\ written = [s \in Streams |-> 0]
    /\ rd = [s \in Streams |-> "none"]
    /\ nread = [s \in Streams |-> 0]
    /\ abort_req = [s \in Streams |-> FALSE]
    /\ chan = <<>>
    /\ removed = <<>>
    /\ cancel_seen = "none"
    /\ chan_at_cancel = <<>>
    /\ cancel_at = "never"
    /\ spawns = <<>>
    /\ calls = <<>>
    /\ recv = 0
    /\ drained = FALSE
    /\ AppNew

ResolveNext ==
    \/ \E ov \in ResolveOverrides, entries \in Enumerations(project.source) :
          Resolve(ov, entries)
    \/ \E src \in SourceSets : SourceChange(src)

ResolveSpec == ResolveInit /\ [][ResolveNext]_vars

(* ------------------------------- claims -------------------------------- *)

Some(b) == <<"Some", b>>
None == <<"None">>
Returned == pc \in {"store_success", "store_finished", "done"}
OkFalse(r) == IsOk(r) /\ r[2] = FALSE
CompileSpawned == "compile" \in Range(spawns)
IsPrefix(a, b) == Len(a) <= Len(b) /\ SubSeq(b, 1, Len(a)) = a
CancelTexts ==
    { "Clean rebuild cancelled before starting.",
      "Clean rebuild cancelled before project file generation.",
      "Build process killed." }
CancelLines == Cardinality({i \in 1..Len(chan) : chan[i].text \in CancelTexts})

C2_CancelBeforeSpawnPreventsSpawn ==
    [][ /\ (cancel_flag /\ ~CompileSpawned) => ~CompileSpawned'
        /\ (cancel_at \in {"before", "cleaning", "regenerating", "spawning"}
              /\ finished') => ~success' ]_vars

\* C3: finished is false when the handle is created, changes only from false
\* to true, only by the task's store after run_build_process returned, and
\* the caller never sees it go back to false.
C3_FinishedSetOnce ==
    /\ ~finished
    /\ [][ /\ (~handle /\ handle') => ~finished'
           /\ finished => finished'
           /\ (~finished /\ finished') =>
                  (handle /\ pc = "store_finished" /\ result # NoResult)
           /\ seen_finished => seen_finished' ]_vars

\* C3 witness: the flag was stored and the caller has seen it.
C3_Witness == finished /\ seen_finished /\ pc = "done"

\* C4 (as stated): try_finished is None while finished is false, and a
\* Some(s) it returns carries the outcome of the phase sequence.
C4_TryFinishedIsOutcome ==
    /\ ~finished => try_finished = None
    /\ try_finished[1] = "Some" => try_finished[2] = Outcome(result)
    /\ last_poll[1] = "Some" => last_poll[2] = Outcome(result)

\* C5: after the poll loop read the cancel flag: the child is not running
\* once kill() returned, "Build process killed." is sent exactly once, both
\* readers have their abort requested and the result is Ok(false) once the
\* branch returned, success stays false, the task needs nothing but its own
\* steps to reach finished, and the lines sent before stay a prefix of the
\* channel.
C5_CancelDuringCompile ==
    cancel_seen = "poll" =>
        /\ IsPrefix(chan_at_cancel, chan)
        /\ pc # "kill" => child # "running"
        /\ Count(chan, "Build process killed.")
             = (IF pc \in {"kill", "kill_send"} THEN 0 ELSE 1)
        /\ pc \notin {"kill", "kill_send", "abort"} =>
               /\ \A s \in Streams : abort_req[s]
               /\ OkFalse(result)
        /\ ~success
        /\ pc = "done" => finished
        /\ pc # "done" => ENABLED TaskStep

\* C5 witness: lines were on the channel, the running child was killed and
\* the handle finished.
C5_Witness ==
    /\ cancel_seen = "poll"
    /\ child = "killed"
    /\ Len(chan_at_cancel) >= 2
    /\ finished
    /\ \A s \in Streams : rd[s] = "aborted"

\* C6 (as stated): after a normal exit, once try_finished returns Some every
\* line the process wrote is on the channel and the value is the exit
\* status's success bit.
C6_DrainedBeforeFinished ==
    (cancel_seen = "none" /\ IsOk(result) /\ try_finished[1] = "Some") =>
        /\ \A s \in Streams :
               /\ nread[s] = written[s]
               /\ \A i \in 1..written[s] :
                      \E j \in 1..Len(chan) :
                          chan[j].text = s /\ chan[j].n = i
        /\ try_finished[2] = child_status

\* The names a scan of the project's Source/ yields, whatever the order.
Candidates(p) ==
    { SubSeq(f, 1, Len(f) - 10) :
        f \in { g \in p.source :
                  /\ Len(g) >= 16
                  /\ SubSeq(g, Len(g) - 15, Len(g)) =
                         <<"E", "d", "i", "t", "o", "r", ".", "T", "a", "r",
                           "g", "e", "t", ".", "c", "s">> } }

\* Resolution of the project finds two or more candidates, none of them the
\* convention-derived name.
AmbiguousProject ==
    /\ project.exists
    /\ Cardinality(Candidates(project)) >= 2
    /\ (project.stem \o sEditor) \notin Candidates(project)

NonBlank(ov) == ov[1] = "Some" /\ \E i \in 1..Len(ov[2]) : ov[2][i] # " "

NothingStarted ==
    /\ ~handle
    /\ pc = "none"
    /\ chan = <<>>
    /\ spawns = <<>>
    /\ removed = <<>>
    /\ fs = project.artifacts

\* C7: with UnrealBuildTool.dll missing, every spawn_build call returns the
\* tool-not-found error, also for a request whose target would not resolve,
\* and nothing is created, spawned, removed or sent.
C7_ToolNotFound ==
    (~ubt_exists /\ last_ret # None) =>
        /\ IsErr(last_ret)
        /\ last_ret[2].text = "UnrealBuildTool not found at "
        /\ NothingStarted

\* C7 witness: the tool is missing and the request's target is ambiguous.
C7_Witness ==
    /\ ~ubt_exists
    /\ IsErr(last_ret)
    /\ AmbiguousProject
    /\ ~NonBlank(last_req[1])

\* C8: with the tool present, a request without a non-blank override for an
\* ambiguous project gets an error that is_ambiguous_target_error accepts
\* and that lists exactly the candidates, in increasing order, and nothing
\* is started; a request with a non-blank override gets a handle.
C8_AmbiguousThenOverride ==
    (ubt_exists /\ last_ret # None) =>
        /\ (AmbiguousProject /\ ~NonBlank(last_req[1])) =>
               /\ IsErr(last_ret)
               /\ is_ambiguous_target_error(last_ret[2])
               /\ Range(last_ret[2].listed) = Candidates(project)
               /\ \A i \in 1..(Len(last_ret[2].listed) - 1) :
                      StrLess(last_ret[2].listed[i], last_ret[2].listed[i + 1])
               /\ NothingStarted
        /\ NonBlank(last_req[1]) => (IsOk(last_ret) /\ handle)

\* C8 witness: the ambiguous error was returned, and the resubmission with
\* an override returned a handle.
C8_Witness ==
    /\ AmbiguousProject
    /\ IsErr(prev_ret)
    /\ prev_ret[2].text = "Multiple editor targets found but none match "
    /\ IsOk(last_ret)
    /\ handle

\* C9: on each cancellation path the channel holds exactly one cancellation
\* line, the one of that path, and no "Build error:" line; the result is
\* Ok(false); the task reaches finished by its own steps, with success false.
C9_CancellationIsNotAnError ==
    cancel_seen # "none" =>
        /\ Count(chan, "Build error: ") = 0
        /\ CancelLines = (IF pc \in {"kill", "kill_send"} THEN 0 ELSE 1)
        /\ Count(chan, CASE cancel_seen = "before_clean" ->
                              "Clean rebuild cancelled before starting."
                         [] cancel_seen = "before_regen" ->
                              "Clean rebuild cancelled before project file generation."
                         [] OTHER -> "Build process killed.") = CancelLines
        /\ Returned => OkFalse(result)
        /\ ~success
        /\ pc = "done" => finished
        /\ pc # "done" => ENABLED TaskStep

\* C9 witness: a build cancelled at the check after cleaning has finished.
C9_Witness ==
    /\ cancel_seen = "before_regen"
    /\ finished
    /\ seen_finished
    /\ CancelLines = 1

\* C10 (as stated): a cancel() during cleaning lets cleaning remove every
\* existing listed path; no process is launched; success stays false.
C10_CleanCompletesThenStops ==
    cancel_at = "cleaning" =>
        /\ pc # "clean" =>
               (fs = {} /\ Range(removed) = project.artifacts)
        /\ spawns = <<>>
        /\ ~success

\* C10 (amended): a cancel() during cleaning does not interrupt it: cleaning
\* ends with every existing listed path removed, or with an error at the
\* first removal that fails (or for a missing project directory); either way
\* no process is launched, the task reaches finished by its own steps and
\* success stays false.
C10_CleanNotInterrupted ==
    cancel_at = "cleaning" =>
        /\ pc \in {"clean", "clean_check2"} \/ Returned
        /\ pc = "clean_check2" =>
               (fs = {} /\ Range(removed) = project.artifacts)
        /\ Returned =>
               \/ /\ cancel_seen = "before_regen"
                  /\ fs = {}
                  /\ Range(removed) = project.artifacts
                  /\ OkFalse(result)
               \/ /\ cancel_seen = "none"
                  /\ IsErr(result)
                  /\ result[2].text \in
                       {"Failed to remove ",
                        "Could not determine project directory for clean rebuild."}
        /\ spawns = <<>>
        /\ ~success
        /\ pc = "done" => finished
        /\ pc # "done" => ENABLED TaskStep

\* C10 witness: cancelled while cleaning, all three existing paths removed,
\* stopped at the check, finished.
C10_Witness ==
    /\ cancel_at = "cleaning"
    /\ cancel_seen = "before_regen"
    /\ Len(removed) = 3
    /\ finished

\* C11: in CleanRebuild mode, when cancel() was called before the background
\* task began, no artifact is removed, no process is launched, the task sends
\* "Clean rebuild cancelled before starting." once, returns Ok(false) and
\* goes on, step by step, to store finished with success = false.
C11_CancelledBeforeStart ==
    (mode = "CleanRebuild" /\ cancel_at = "before") =>
        /\ removed = <<>>
        /\ fs = project.artifacts
        /\ spawns = <<>>
        /\ regen.st = "none"
        /\ child = "none"
        /\ ~success
        /\ pc # "start" =>
               /\ Returned
               /\ OkFalse(result)
               /\ Count(chan, "Clean rebuild cancelled before starting.") = 1
               /\ Count(chan,
                     "Clean rebuild: removing temporary project files...") = 0
        /\ pc # "done" => ENABLED TaskStep
        /\ pc = "done" => finished

\* C11 witness: such a build of a project with artifacts on disk finished and
\* the caller polled the failure.
C11_Witness ==
    /\ mode = "CleanRebuild"
    /\ cancel_at = "before"
    /\ project.artifacts # {}
    /\ pc = "done"
    /\ last_poll = Some(FALSE)

\* The regeneration command exited with a failure status and the task has
\* looked at it, or the command could not be launched.
RegenExitFailed == regen.st = "exited" /\ ~regen.ok /\ pc # "regen_wait"
RegenLaunchFailed ==
    /\ Count(chan, "Clean rebuild: regenerating project files...") = 1
    /\ pc # "regen_launch"
    /\ regen.st = "none"

\* C12: in CleanRebuild mode, when the regeneration command exits with a
\* non-success status or cannot be launched, run_build_process returns an
\* error, the compile process is never spawned, one "Build error:" line is
\* sent, the task goes on to store finished with success = false, and what
\* cleaning removed stays removed.
C12_RegenFailureStopsBuild ==
    (RegenExitFailed \/ RegenLaunchFailed) =>
        /\ mode = "CleanRebuild"
        /\ Returned
        /\ IsErr(result)
        /\ ~CompileSpawned
        /\ child = "none"
        /\ ~success
        /\ fs = {}
        /\ Range(removed) = project.artifacts
        /\ Count(chan, "Build error: ") =
               (IF pc = "store_success" THEN 0 ELSE 1)
        /\ pc # "done" => ENABLED TaskStep
        /\ pc = "done" => finished

\* C12 witness: artifacts were removed, the regeneration exited with a
\* failure status, and the caller polled the failed build.
C12_Witness ==
    /\ RegenExitFailed
    /\ removed # <<>>
    /\ pc = "done"
    /\ chan[Len(chan)].text = "Build error: "
    /\ last_poll = Some(FALSE)

\* The order in which cleaning goes through its paths, and those of them the
\* project directory held when the build was requested.
FixedOrder == <<"Binaries", "Intermediate", "Saved", ".vs", "<stem>.sln">>
InArtifacts(x) == x \in project.artifacts
ExistingInOrder == SelectSeq(FixedOrder, InArtifacts)
IsRemoving(l) == l.text \in {"Removing directory: ", "Removing file: "}
\* The paths the "Removing ..." lines of the channel name, in send order.
Announced ==
    LET q == SelectSeq(chan, IsRemoving)
    IN  [i \in 1..Len(q) |-> q[i].arg[1]]
\* A removal was announced and did not happen.
RemovalFailed == Len(Announced) > Len(removed)

\* C13: cleaning removes the existing paths in the order Binaries,
\* Intermediate, Saved, .vs, solution file; when a removal fails, the task
\* returns at once with "Failed to remove" naming that path, later paths are
\* left alone, earlier removals stay, neither regeneration nor compile is
\* launched, and the task goes on to store finished with success = false.
C13_CleanOrderAndFailure ==
    /\ IsPrefix(removed, ExistingInOrder)
    /\ IsPrefix(Announced, ExistingInOrder)
    /\ fs = project.artifacts \ Range(removed)
    /\ Len(Announced) <= Len(removed) + 1
    /\ RemovalFailed =>
           LET failed == ExistingInOrder[Len(removed) + 1]
           IN  /\ Returned
               /\ IsErr(result)
               /\ result[2].text = "Failed to remove "
               /\ result[2].expected = <<failed>>
               /\ failed \in fs
               /\ spawns = <<>>
               /\ regen.st = "none"
               /\ child = "none"
               /\ ~success
               /\ pc # "done" => ENABLED TaskStep
               /\ pc = "done" => finished

\* C13 witness: one path was removed, the removal of the next existing one
\* failed while a later one was still on disk, and the build finished.
C13_Witness ==
    /\ RemovalFailed
    /\ Len(removed) = 1
    /\ Cardinality(fs) = 2
    /\ pc = "done"
    /\ last_poll = Some(FALSE)

\* clean_project_artifacts was entered and returned an error: the cleaning
\* announcement was sent, the regeneration one was not, and the task returned
\* an error.
CleanReturnedErr ==
    /\ Count(chan, "Clean rebuild: removing temporary project files...") = 1
    /\ Count(chan, "Clean rebuild: regenerating project files...") = 0
    /\ Returned
    /\ IsErr(result)

\* C14 (as stated): only paths that exist are announced, and cleaning returns
\* an error only when the removal of an existing path failed.
C14_ErrorOnlyOnFailedRemoval ==
    /\ Range(Announced) \subseteq project.artifacts
    /\ CleanReturnedErr =>
           /\ RemovalFailed
           /\ Announced[Len(Announced)] \in project.artifacts

\* C14 (amended): absent entries are skipped without a log line and without
\* an error; cleaning returns an error when the removal of an existing path
\* failed, or, before any entry is looked at, when the project path has no
\* parent directory.
C14_ErrorOnFailedRemovalOrNoParent ==
    /\ Range(Announced) \subseteq project.artifacts
    /\ CleanReturnedErr =>
           \/ /\ RemovalFailed
              /\ project.has_parent
              /\ Announced[Len(Announced)] \in project.artifacts
              /\ result[2].text = "Failed to remove "
           \/ /\ ~project.has_parent
              /\ Announced = <<>>
              /\ removed = <<>>
              /\ result[2].text =
                    "Could not determine project directory for clean rebuild."
    /\ (pc \in {"clean", "clean_check2"} /\ project.has_parent) =>
           /\ ~RemovalFailed
           /\ Len(Announced) = Len(removed)
           /\ result = NoResult

\* C14 witness: cleaning went through its whole list in a project directory
\* that holds one of the paths only, without an error and with one line.
C14_Witness ==
    /\ pc = "clean_check2"
    /\ Cardinality(project.artifacts) = 1
    /\ Announced = removed
    /\ Len(removed) = 1
    /\ result = NoResult

Spaces(n) == [k \in 1..n |-> " "]
\* t is s without its leading and trailing spaces, and is not empty.
IsTrimOf(t, s) ==
    /\ t # <<>>
    /\ t[1] # " "
    /\ t[Len(t)] # " "
    /\ Len(t) <= Len(s)
    /\ \E i \in 0..(Len(s) - Len(t)) :
           s = Spaces(i) \o t \o Spaces(Len(s) - Len(t) - i)

EndsInEditorAnyCase(s) ==
    /\ Len(s) >= 6
    /\ \A k \in 1..6 : s[Len(s) - 6 + k] \in {sEditor[k], sEDITOR[k]}
ConventionName(stem) ==
    IF EndsInEditorAnyCase(stem) THEN stem ELSE stem \o sEditor
StrictlySorted(q) == \A k \in 1..(Len(q) - 1) : StrLess(q[k], q[k + 1])
\* Call i had no usable override and its discovery succeeded.
Discovered(i) ==
    /\ ~NonBlank(calls[i].ov)
    /\ project.exists
    /\ project.has_parent
CandidatesOf(i) == Candidates([source |-> calls[i].source])
\* What resolution owes for two or more candidates cs and a stem.
MultipleRule(ret, stem, cs) ==
    IF ConventionName(stem) \in cs
    THEN IsOk(ret) /\ ret[2] = ConventionName(stem)
    ELSE /\ IsErr(ret)
         /\ ret[2].text = "Multiple editor targets found but none match "
         /\ ret[2].expected = ConventionName(stem)
         /\ Range(ret[2].listed) = cs
         /\ Len(ret[2].listed) = Cardinality(cs)
         /\ StrictlySorted(ret[2].listed)

\* C16 (as stated): with two or more discovered candidates and no override,
\* resolution returns the convention-derived name exactly when it is among
\* the candidates, and otherwise fails listing all candidates, sorted and
\* without duplicates.
C16_MultipleCandidates ==
    \A i \in 1..Len(calls) :
        (Discovered(i) /\ Cardinality(CandidatesOf(i)) >= 2) =>
            MultipleRule(calls[i].ret, project.stem, CandidatesOf(i))

\* C16 (amended): the same for a project path that has a file name; for a
\* path without one resolution fails with "Invalid project file name".
C16_MultipleCandidatesOfNamedFile ==
    \A i \in 1..Len(calls) :
        (Discovered(i) /\ Cardinality(CandidatesOf(i)) >= 2) =>
            IF project.has_name
            THEN MultipleRule(calls[i].ret, project.stem, CandidatesOf(i))
            ELSE /\ IsErr(calls[i].ret)
                 /\ calls[i].ret[2].text = "Invalid project file name"

\* C16 witness: for Foo.uproject, {FooEditor, BarEditor} gave FooEditor, and
\* {BazEditor, QuxEditor}, read with QuxEditor first, failed listing
\* BazEditor, QuxEditor.
C16_Witness ==
    /\ project.stem = sFoo
    /\ Len(calls) = 2
    /\ Discovered(1)
    /\ CandidatesOf(1) = {sFoo \o sEditor, sBar \o sEditor}
    /\ calls[1].ret = Ok(sFoo \o sEditor)
    /\ Discovered(2)
    /\ CandidatesOf(2) = {sBaz \o sEditor, sQux \o sEditor}
    /\ calls[2].listing[2][1] = sQux \o sEditor \o sTargetCs
    /\ IsErr(calls[2].ret)
    /\ calls[2].ret[2].listed = <<sBaz \o sEditor, sQux \o sEditor>>

\* C17 (as stated): with exactly one discovered candidate and no override,
\* resolution returns that candidate, whatever the convention-derived name.
C17_LoneCandidate ==
    \A i \in 1..Len(calls) :
        (Discovered(i) /\ Cardinality(CandidatesOf(i)) = 1) =>
            /\ IsOk(calls[i].ret)
            /\ CandidatesOf(i) = {calls[i].ret[2]}

\* C17 (amended): the same for a project path that has a file name; for a
\* path without one resolution fails with "Invalid project file name".
C17_LoneCandidateOfNamedFile ==
    \A i \in 1..Len(calls) :
        (Discovered(i) /\ Cardinality(CandidatesOf(i)) = 1) =>
            IF project.has_name
            THEN /\ IsOk(calls[i].ret)
                 /\ CandidatesOf(i) = {calls[i].ret[2]}
            ELSE /\ IsErr(calls[i].ret)
                 /\ calls[i].ret[2].text = "Invalid project file name"

\* C17 witness: for Foo.uproject, a Source/ holding BazEditor.Target.cs and
\* Foo.Target.cs resolved to BazEditor, and for FooEditor.uproject too.
C17_Witness ==
    /\ project.stem \in {sFoo, sFoo \o sEditor}
    /\ \E i \in 1..Len(calls) :
           /\ Discovered(i)
           /\ calls[i].source = {sBaz \o sEditor \o sTargetCs, sFoo \o sTargetCs}
           /\ calls[i].ret = Ok(sBaz \o sEditor)

\* C18 (as stated): with zero discovered candidates and no override,
\* resolution never fails and returns the stem with "Editor" appended, or
\* the stem itself when it ends in "Editor" in any letter case.
C18_NoCandidates ==
    \A i \in 1..Len(calls) :
        (Discovered(i) /\ CandidatesOf(i) = {}) =>
            /\ IsOk(calls[i].ret)
            /\ calls[i].ret[2] = ConventionName(project.stem)

\* C18 (amended): the same for a project path that has a file name; for a
\* path without one resolution fails with "Invalid project file name".
C18_NoCandidatesOfNamedFile ==
    \A i \in 1..Len(calls) :
        (Discovered(i) /\ CandidatesOf(i) = {}) =>
            IF project.has_name
            THEN /\ IsOk(calls[i].ret)
                 /\ calls[i].ret[2] = ConventionName(project.stem)
            ELSE /\ IsErr(calls[i].ret)
                 /\ calls[i].ret[2].text = "Invalid project file name"

\* C18 witness: FooEDITOR.uproject with an empty Source/ resolved to
\* FooEDITOR.
C18_Witness ==
    /\ project.stem = sFoo \o sEDITOR
    /\ \E i \in 1..Len(calls) :
           /\ Discovered(i)
           /\ calls[i].source = {}
           /\ calls[i].ret = Ok(sFoo \o sEDITOR)

\* C19: two resolutions of the same project path under the same override
\* return the same result when they read no directory or when their scans
\* yield the same set of candidates, whatever the order read_dir handed the
\* entries out in, whatever else Source/ holds, and whatever was resolved
\* before.
C19_ResolutionDeterministic ==
    \A i, j \in 1..Len(calls) :
        ( /\ calls[i].ov = calls[j].ov
          /\ \/ calls[i].listing = None
             \/ CandidatesOf(i) = CandidatesOf(j) ) =>
            calls[i].ret = calls[j].ret

\* C19 witness: two resolutions without override found the same two
\* candidates, the first with BazEditor listed first, the second, after
\* another file had appeared in Source/, with QuxEditor listed first, and
\* both failed with the same message.
C19_Witness ==
    /\ Len(calls) = 2
    /\ calls[1].ov = NoOverride
    /\ calls[2].ov = NoOverride
    /\ calls[1].listing # None
    /\ calls[2].listing # None
    /\ Cardinality(CandidatesOf(1)) = 2
    /\ CandidatesOf(1) = CandidatesOf(2)
    /\ calls[1].source # calls[2].source
    /\ calls[1].listing[2][1] = sBaz \o sEditor \o sTargetCs
    /\ calls[2].listing[2][1] = sQux \o sEditor \o sTargetCs
    /\ IsErr(calls[1].ret)
    /\ calls[1].ret = calls[2].ret

IsStdoutLine(l) == l.text = "stdout"
IsStderrLine(l) == l.text = "stderr"
\* The lines of the channel that came from stream s, in channel order.
StreamLines(s) ==
    IF s = "stdout" THEN SelectSeq(chan, IsStdoutLine)
    ELSE SelectSeq(chan, IsStderrLine)

\* C20: in every reachable state the channel's lines of a stream are the
\* first lines the process wrote to it, each once and in writing order
\* (line k of the stream at place k among them), and a reader that is still
\* running with lines pending in its pipe can forward the next one.
C20_StreamOrder ==
    \A s \in Streams :
        /\ Len(StreamLines(s)) = nread[s]
        /\ nread[s] <= written[s]
        /\ \A k \in 1..Len(StreamLines(s)) : StreamLines(s)[k].n = k
        /\ (rd[s] = "reading" /\ nread[s] < written[s]) =>
               ENABLED ReaderForward(s)

\* C20 witness: both lines the process wrote to stdout are on the channel
\* while both readers and the poll loop are still running.
C20_Witness ==
    /\ nread["stdout"] = 2
    /\ rd["stdout"] = "reading"
    /\ rd["stderr"] = "reading"
    /\ pc = "poll_wait"
    /\ child = "running"

\* C21: once cancel() has been called, a further call, at whatever position
\* of the task, is possible and leaves every part of the state as it is: the
\* handle and the build are as after the single call.
C21_CancelIdempotent ==
    cancel_flag =>
        /\ ENABLED Cancel
        /\ ~ENABLED (Cancel /\ vars' # vars)

\* C21 witness: the flag was set before the task began, and cancel() can be
\* called again while the compile process runs, and again after finished.
C21_Witness ==
    /\ cancel_flag
    /\ cancel_at = "before"
    /\ ENABLED Cancel
    /\ pc = "done"
    /\ CompileSpawned

CountIn(q, x) == Cardinality({i \in 1..Len(q) : q[i] = x})

\* C22: within a build each phase is entered at most once, each external
\* command is launched at most once, no path is removed twice, a failed
\* launch or a failure status is not followed by another launch, and the
\* regeneration process and the compile process are never alive together.
C22_PhasesOnce ==
    /\ Count(chan, "Clean rebuild: removing temporary project files...") <= 1
    /\ Count(chan, "Clean rebuild: regenerating project files...") <= 1
    /\ Count(chan, "Running: ") <= 1
    /\ CountIn(spawns, "regen") <= 1
    /\ CountIn(spawns, "compile") <= 1
    /\ Len(spawns) <= 2
    /\ Cardinality(Range(removed)) = Len(removed)
    /\ ~(regen.st = "running" /\ child = "running")
    /\ child # "none" => regen.st # "running"
    /\ (CompileSpawned /\ child # "running") => pc # "spawn"
    /\ (IsErr(result) /\ Returned) =>
           /\ regen.st # "running" \/ "compile" \notin Range(spawns)
           /\ child # "running"

\* C22 witness: a clean rebuild whose compile process exited with a failure
\* status finished, with one regeneration and one compile launched.
C22_Witness ==
    /\ spawns = <<"regen", "compile">>
    /\ child = "exited"
    /\ ~child_status
    /\ removed # <<>>
    /\ pc = "done"

\* C23: a Standard build removes nothing and launches no regeneration; a
\* CleanRebuild launches the regeneration only when cleaning went through
\* its whole list without a failure, and spawns the compile process only
\* when the regeneration exited with success.
C23_PhaseGating ==
    /\ mode = "Standard" =>
           /\ removed = <<>>
           /\ fs = project.artifacts
           /\ "regen" \notin Range(spawns)
           /\ regen.st = "none"
           /\ Announced = <<>>
    /\ "regen" \in Range(spawns) =>
           /\ mode = "CleanRebuild"
           /\ project.has_parent
           /\ ~RemovalFailed
           /\ fs = {}
           /\ Range(removed) = project.artifacts
           /\ spawns[1] = "regen"
    /\ (mode = "CleanRebuild" /\ CompileSpawned) =>
           /\ spawns = <<"regen", "compile">>
           /\ regen.st = "exited"
           /\ regen.ok

\* C23 witness: a clean rebuild removed the project's artifacts, its
\* regeneration exited with success and its compile process is running.
C23_Witness ==
    /\ mode = "CleanRebuild"
    /\ removed # <<>>
    /\ regen.st = "exited"
    /\ regen.ok
    /\ child = "running"

\* C24 (as stated): for a build whose phase sequence returned an error, a
\* caller that has seen try_finished return Some and then emptied the
\* channel has received the "Build error:" line.
C24_BuildErrorLineFound ==
    (drained /\ IsErr(result)) =>
        \E i \in 1..recv : chan[i].text = "Build error: "

\* The phases of run_build_process the build has entered, in order.  A
\* Standard build has the compile phase alone; a clean rebuild enters
\* cleaning after its first cancel check, regeneration after its second, and
\* the compile phase when regenerate_project_files returned Ok.
CleanEntered == pc # "start" /\ cancel_seen # "before_clean"
CompileEntered ==
    IF mode = "Standard" THEN TRUE
    ELSE regen.st = "exited" /\ regen.ok /\ pc # "regen_wait"
RegenEntered ==
    \/ pc \in {"regen_launch", "regen_wait"}
    \/ regen.st # "none"
    \/ /\ IsErr(result)
       /\ result[2].text = "Failed to regenerate project files: "
PhasesEntered ==
    IF ~handle THEN <<>>
    ELSE IF mode = "Standard" THEN <<"compile">>
    ELSE (IF CleanEntered THEN <<"clean">> ELSE <<>>)
         \o (IF RegenEntered THEN <<"regen">> ELSE <<>>)
         \o (IF CompileEntered THEN <<"compile">> ELSE <<>>)

\* C25 (as stated): the announcement of a phase is on the channel before the
\* phase acts (a removal, the launch of the regeneration, the spawn of the
\* compile process), and the log tells the phases entered: no step changes
\* the sequence of phases entered and leaves the log as it was.
C25_PhasesFromLog ==
    [][ /\ removed' # removed =>
               Count(chan, "Clean rebuild: removing temporary project files...") = 1
        /\ CountIn(spawns', "regen") # CountIn(spawns, "regen") =>
               Count(chan, "Clean rebuild: regenerating project files...") = 1
        /\ CountIn(spawns', "compile") # CountIn(spawns, "compile") =>
               Count(chan, "Running: ") = 1
        /\ PhasesEntered' # PhasesEntered => chan' # chan
      ]_vars

\* The conditions of a successful build: run_build_process returned no
\* error, none of its reads of the cancel flag found it set, and the exit
\* status of the compile process reports success.
GoodOutcome ==
    /\ Returned
    /\ ~IsErr(result)
    /\ cancel_seen = "none"
    /\ child = "exited"
    /\ child_status

\* C26 (as stated): whenever try_finished returned Some(s), s is true if and
\* only if no phase returned an error, no cancellation was observed and the
\* compile process exited with a success status, whatever the process wrote.
C26_SomeTrueIffGoodOutcome ==
    /\ last_poll[1] = "Some" => (last_poll[2] <=> GoodOutcome)
    /\ try_finished[1] = "Some" => (try_finished[2] <=> GoodOutcome)

(* ----------------------- fairness of the runtime ----------------------- *)

\* One step of a reader task.
ReaderStep(s) ==
    \/ ReaderForward(s)
    \/ ReaderEof(s)
    \/ ReaderError(s)
    \/ ReaderAborted(s)

\* The tokio runtime keeps polling the tasks it holds that can make progress:
\* the build task and the two reader tasks.  Nothing is assumed of the caller,
\* of the compile process or of the regeneration process.  The builds are
\* those of one project whose tool is installed.
FairInit ==
    /\ Init
    /\ ubt_exists
    /\ project.artifacts = {".vs"}

FairSpec ==
    /\ FairInit
    /\ [][Next]_vars
    /\ WF_vars(TaskStep)
    /\ \A s \in Streams : WF_vars(ReaderStep(s))

WaitFailed ==
    /\ IsErr(result)
    /\ result[2].text = "Error waiting for process: "

\* C28 (as stated): the compile process is force-terminated only with the
\* cancel flag true, and a build whose compile process was spawned finishes
\* only if the process exited by itself or cancel was requested.
C28_KillOnlyOnCancel ==
    /\ child = "killed" => cancel_flag
    /\ (finished /\ CompileSpawned) => (child = "exited" \/ cancel_flag)

\* C28 (amended): child.kill() is reached only from a load of the cancel flag
\* that returned true; the only other termination is the drop of a child
\* still running when a failed try_wait makes run_build_process return.  A
\* build whose compile process was spawned finishes only if the process
\* exited by itself, the poll loop saw the flag, or try_wait failed: there is
\* no timeout.
C28_KillOnCancelOrWaitError ==
    /\ pc \in {"kill", "kill_send", "abort"} =>
           (cancel_flag /\ cancel_seen = "poll")
    /\ child = "killed" =>
           \/ cancel_flag /\ cancel_seen = "poll"
           \/ WaitFailed
    /\ (Returned /\ CompileSpawned) =>
           \/ child = "exited"
           \/ cancel_flag /\ cancel_seen = "poll"
           \/ WaitFailed
    /\ (child = "running" /\ ~cancel_flag) =>
           /\ pc \in {"poll_cancel", "poll_wait"}
           /\ ~finished

\* C28 witness: a compile process that never exited by itself was killed
\* after the poll loop saw the flag, and the build finished with no error.
C28_Witness ==
    /\ child = "killed"
    /\ cancel_seen = "poll"
    /\ ~IsErr(result)
    /\ written["stdout"] > 0
    /\ finished

\* C29: each flag of the handle has one writer.  A cancel() call changes
\* neither finished nor success nor what try_finished returns; finished and
\* success change only at the two stores of the background task, which leave
\* the cancel flag alone; and the cancel flag, once true, stays true.
C29_SingleWriter ==
    [][ /\ Cancel =>
               /\ finished' = finished
               /\ success' = success
               /\ try_finished' = try_finished
        /\ cancel_flag' # cancel_flag => (Cancel /\ cancel_flag')
        /\ cancel_flag => cancel_flag'
        /\ finished' # finished =>
               (pc = "store_finished" /\ TaskStoreFinished /\ finished')
        /\ success' # success => (pc = "store_success" /\ TaskStoreSuccess)
        /\ TaskStep => cancel_flag' = cancel_flag
      ]_vars

\* C29 witness: cancel() was first called after the handle finished with
\* success, and try_finished still returns Some(true).
C29_Witness ==
    /\ cancel_flag
    /\ cancel_at = "finished"
    /\ finished
    /\ success
    /\ try_finished = Some(TRUE)

\* C30 (as stated): in every run of clean_project_artifacts, successful or
\* failed, the "Removing" lines are the paths removed, in removal order.
C30_OneLinePerRemoval == Announced = removed

\* C30 (amended): a "Removing" line is sent for each existing path just
\* before its removal is attempted, in list order and never twice.  In a run
\* without a failed removal the lines are the paths removed, in removal
\* order; in a run that ends at a failed removal there is one line more, the
\* last one, naming the path that is still on disk and that the error names.
C30_OneLinePerAttempt ==
    /\ Len(Announced) \in {Len(removed), Len(removed) + 1}
    /\ SubSeq(Announced, 1, Len(removed)) = removed
    /\ Cardinality(Range(Announced)) = Len(Announced)
    /\ Range(Announced) \subseteq project.artifacts
    /\ IsPrefix(Announced, ExistingInOrder)
    /\ RemovalFailed =>
           /\ Returned
           /\ IsErr(result)
           /\ result[2].text = "Failed to remove "
           /\ result[2].expected = <<Announced[Len(Announced)]>>
           /\ Announced[Len(Announced)] \in fs
    /\ (Returned /\ ~(IsErr(result) /\ result[2].text = "Failed to remove "))
           => Announced = removed

\* C30 witness: a clean rebuild removed two paths and failed to remove the
\* third: three "Removing" lines, two paths removed.
C30_Witness ==
    /\ Len(removed) = 2
    /\ Len(Announced) = 3
    /\ Announced[3] \in fs
    /\ Returned

(* ------------------------------ App.logs ------------------------------- *)

\* push_log keeps at most LogCap lines and drops LogDrop at a time.
LogCap == 10000
LogDrop == 1000

\* The bytes '@'..='~' that end an escape sequence, among the characters
\* the log texts are made of: "ESC", "[", "m", "1", "a", " ", "TAB", "CR",
\* "LF" and "BEL" (a control character).
CsiFinal == {"m", "a", "["}
LogChars == {"ESC", "[", "m", "1", "a", " ", "TAB", "CR", "LF", "BEL"}

\* `while let Some(next) = chars.next() { if ('@'..='~').contains(&next)
\* { break; } }`: what is left after the end of the escape sequence.
RECURSIVE SkipCsi(_)
SkipCsi(q) ==
    IF q = <<>> THEN <<>>
    ELSE IF Head(q) \in CsiFinal THEN Tail(q)
    ELSE SkipCsi(Tail(q))

\* The loop of sanitize_log_text, before trim_end.
RECURSIVE SanitizeChars(_)
SanitizeChars(q) ==
    IF q = <<>> THEN <<>>
    ELSE LET ch == Head(q)
             rest == Tail(q)
         IN  IF ch = "ESC"
             THEN IF rest # <<>> /\ Head(rest) = "["
                  THEN SanitizeChars(SkipCsi(Tail(rest)))
                  ELSE SanitizeChars(rest)
             ELSE IF ch \in {"CR", "LF"} THEN <<" ">> \o SanitizeChars(rest)
             ELSE IF ch = "TAB"
                  THEN <<" ", " ", " ", " ">> \o SanitizeChars(rest)
             ELSE IF ch = "BEL" THEN SanitizeChars(rest)
             ELSE <<ch>> \o SanitizeChars(rest)

\* Mutant of sanitize_log_text: nothing is removed or trimmed.
sanitize_log_text_AsIs(q) == q

sanitize_log_text(q) == TrimEnd(SanitizeChars(q))

\* A line whose text is given character by character; the other lines of the
\* model have a fixed printable text that sanitising leaves as it is.
IsRaw(l) == l.text = "raw"
Sanitized(l) == IF IsRaw(l) THEN [l EXCEPT !.arg = sanitize_log_text(@)] ELSE l
IsEmptyText(l) == IsRaw(l) /\ l.arg = <<>>

\* The part of the App that push_log reads and writes.
LogView(q, scroll, auto) == [logs |-> q, log_scroll |-> scroll, auto |-> auto]

SatSub(a, b) == IF a >= b THEN a - b ELSE 0

\* Mutant of push_log: the oldest lines are dropped when the length reaches
\* the cap plus one more line.
push_log_LateDrop(v, l) ==
    LET t == Sanitized(l)
    IN  IF IsEmptyText(t) THEN v
        ELSE LET q1 == Append(v.logs, t)
                 over == Len(q1) > LogCap + 1
                 q2 == IF over THEN SubSeq(q1, LogDrop + 1, Len(q1)) ELSE q1
                 s2 == IF over THEN SatSub(v.log_scroll, LogDrop)
                       ELSE v.log_scroll
             IN  LogView(q2, IF v.auto THEN SatSub(Len(q2), 1) ELSE s2, v.auto)

\* App::push_log
push_log(v, l) ==
    LET t == Sanitized(l)
    IN  IF IsEmptyText(t) THEN v
        ELSE LET q1 == Append(v.logs, t)
                 over == Len(q1) > LogCap
                 q2 == IF over THEN SubSeq(q1, LogDrop + 1, Len(q1)) ELSE q1
                 s2 == IF over THEN SatSub(v.log_scroll, LogDrop)
                       ELSE v.log_scroll
             IN  LogView(q2, IF v.auto THEN SatSub(Len(q2), 1) ELSE s2, v.auto)

\* push_log for each line of a sequence, in order.
RECURSIVE PushAll(_, _)
PushAll(v, q) ==
    IF q = <<>> THEN v ELSE PushAll(push_log(v, Head(q)), Tail(q))

\* App::clear_logs
clear_logs == LogView(<<>>, 0, TRUE)

\* The App's own view.
AppLogs == LogView(logs, log_scroll, auto_scroll_logs)

\* The App takes the log view v.
SetLogs(v) ==
    /\ logs' = v.logs
    /\ log_scroll' = v.log_scroll
    /\ auto_scroll_logs' = v.auto

(* ------------------------------- the App ------------------------------- *)

\* Bound on the start_build / start_clean_rebuild calls of one behaviour.
MaxBuilds == 2

AppLine(text) == Line(text, <<>>, 0)

\* prompt_editor_target_resolution pushes one line, or none when it returns
\* before its push_log calls.
PromptLines == {<<>>, <<AppLine("editor target prompt")>>}

\* The background task of the build in progress has not stored finished.
TaskUnfinished == handle /\ pc # "done"

\* Every sender of the channel is dropped: the task has ended and no reader
\* task is alive.
SendersDropped ==
    /\ pc = "done"
    /\ \A s \in Streams : rd[s] # "reading"

\* spawn_build returned Ok: a new channel, a new handle and a new task; the
\* task of the build before it, when unfinished, keeps running on its own.
NewTask(ov, m, name) ==
    /\ last_req' = <<ov, m>>
    /\ prev_ret' = last_ret
    /\ last_ret' = Ok(<<>>)
    /\ chan' = <<Line("Running: ", <<m>>, 0)>>
    /\ recv' = 0
    /\ drained' = FALSE
    /\ handle' = TRUE
    /\ finished' = FALSE
    /\ success' = FALSE
    /\ cancel_flag' = FALSE
    /\ seen_finished' = FALSE
    /\ seen_success' = FALSE
    /\ last_poll' = NoPoll
    /\ pc' = "start"
    /\ mode' = m
    /\ target_name' = name
    /\ clean_idx' = 1
    /\ result' = NoResult
    /\ regen' = NoRegen
    /\ child' = "none"
    /\ child_status' = FALSE
    /\ written' = [s \in Streams |-> 0]
    /\ rd' = [s \in Streams |-> "none"]
    /\ nread' = [s \in Streams |-> 0]
    /\ abort_req' = [s \in Streams |-> FALSE]
    /\ removed' = <<>>
    /\ cancel_seen' = "none"
    /\ chan_at_cancel' = <<>>
    /\ cancel_at' = "never"
    /\ spawns' = <<>>
    /\ notified' = <<>>
    /\ orphans' = IF TaskUnfinished THEN orphans + 1 ELSE orphans

taskVars ==
    <<last_req, last_ret, prev_ret, handle, finished, success, cancel_flag,
      seen_finished, seen_success, last_poll, pc, mode, target_name,
      clean_idx, result, regen, child, child_status, written, rd, nread,
      abort_req, chan, removed, cancel_seen, chan_at_cancel, cancel_at,
      spawns, recv, drained>>

\* Mutant of AppStart: a build is started whatever build_state is.
AppStart_WhileRunning(sel, ov, m, entries, prompt) ==
    /\ poll_pc = "idle"
    /\ builds < MaxBuilds
    /\ sel = "ok"
    /\ IsOk(SpawnBuildCheck(ov, entries))
    /\ build_state' = "Running"
    /\ log_rx' = TRUE
    /\ build_handle' = TRUE
    /\ SetLogs(clear_logs)
    /\ NewTask(ov, m, SpawnBuildCheck(ov, entries)[2])
    /\ builds' = builds + 1
    /\ UNCHANGED <<project, ubt_exists, fs, calls, poll_pc>>

\* App::start_build / App::start_clean_rebuild, reached from the "Build" and
\* "Clean Rebuild" buttons and from the keys b and n, all of which require
\* build_state to be other than Running.
AppStart(sel, ov, m, entries, prompt) ==
    /\ poll_pc = "idle"
    /\ build_state # "Running"
    /\ builds < MaxBuilds
    /\ CASE sel = "no_project" ->
              /\ SetLogs(push_log(AppLogs, AppLine(
                     "No project selected. Select one in Projects and press Enter.")))
              /\ UNCHANGED <<taskVars, build_state, build_handle, log_rx,
                             notified, orphans>>
         [] sel = "no_engine" ->
              /\ SetLogs(push_log(AppLogs, AppLine("No engine path set.")))
              /\ UNCHANGED <<taskVars, build_state, build_handle, log_rx,
                             notified, orphans>>
         [] OTHER ->
              LET r == SpawnBuildCheck(ov, entries)
              IN  IF IsErr(r)
                  THEN /\ SetLogs(PushAll(clear_logs,
                              <<AppLine("Failed to start build: ")>>
                              \o (IF is_ambiguous_target_error(r[2])
                                  THEN prompt ELSE <<>>)))
                       /\ build_state' = "Error"
                       /\ log_rx' = FALSE
                       /\ UNCHANGED <<taskVars, build_handle, notified,
                                      orphans>>
                  ELSE /\ SetLogs(clear_logs)
                       /\ build_state' = "Running"
                       /\ log_rx' = TRUE
                       /\ build_handle' = TRUE
                       /\ NewTask(ov, m, r[2])
    /\ builds' = builds + 1
    /\ UNCHANGED <<project, ubt_exists, fs, calls, poll_pc>>

\* Mutant of AppCancel: the handle is kept.
AppCancel_KeepHandle ==
    /\ poll_pc = "idle"
    /\ build_state = "Running"
    /\ build_state' = "Cancelled"
    /\ cancel_flag' = (cancel_flag \/ build_handle)
    /\ cancel_at' = IF build_handle /\ ~cancel_flag THEN Phase(pc) ELSE cancel_at
    /\ SetLogs(push_log(AppLogs, AppLine("Build cancelled by user.")))
    /\ UNCHANGED <<project, ubt_exists, fs, calls, last_req, last_ret,
                   prev_ret, handle, finished, success, seen_finished,
                   seen_success, last_poll, pc, mode, target_name, clean_idx,
                   result, regen, child, child_status, written, rd, nread,
                   abort_req, chan, removed, cancel_seen, chan_at_cancel,
                   spawns, recv, drained, build_handle, log_rx, notified,
                   poll_pc, builds, orphans>>

\* App::cancel_build, from the "Cancel" button, the key c, and the quit path.
AppCancel ==
    /\ poll_pc = "idle"
    /\ IF build_state # "Running"
       THEN UNCHANGED <<cancel_flag, cancel_at, build_state, build_handle,
                        logs, log_scroll, auto_scroll_logs>>
       ELSE /\ build_state' = "Cancelled"
            /\ build_handle' = FALSE
            /\ cancel_flag' = (cancel_flag \/ build_handle)
            /\ cancel_at' = IF build_handle /\ ~cancel_flag THEN Phase(pc)
                            ELSE cancel_at
            /\ SetLogs(push_log(AppLogs, AppLine("Build cancelled by user.")))
    /\ UNCHANGED <<project, ubt_exists, fs, calls, last_req, last_ret,
                   prev_ret, handle, finished, success, seen_finished,
                   seen_success, last_poll, pc, mode, target_name, clean_idx,
                   result, regen, child, child_status, written, rd, nread,
                   abort_req, chan, removed, cancel_seen, chan_at_cancel,
                   spawns, recv, drained, log_rx, notified, poll_pc, builds,
                   orphans>>

\* The "Clear" button and the key x: available when build_state is not
\* Running.
AppClear ==
    /\ poll_pc = "idle"
    /\ build_state # "Running"
    /\ SetLogs(clear_logs)
    /\ build_state' = "Idle"
    /\ UNCHANGED <<project, ubt_exists, fs, calls, taskVars, build_handle,
                   log_rx, notified, poll_pc, builds, orphans>>

\* poll_build, first half: try_recv until the channel reports Empty or
\* Disconnected, then push_log for each line taken.
AppPollDrain ==
    /\ poll_pc = "idle"
    /\ poll_pc' = "drained"
    /\ IF log_rx
       THEN /\ recv' = Len(chan)
            /\ SetLogs(PushAll(AppLogs, SubSeq(chan, recv + 1, Len(chan))))
            /\ log_rx' = ~SendersDropped
       ELSE UNCHANGED <<recv, logs, log_scroll, auto_scroll_logs, log_rx>>
    /\ UNCHANGED <<project, ubt_exists, fs, calls, last_req, last_ret,
                   prev_ret, handle, finished, success, cancel_flag,
                   seen_finished, seen_success, last_poll, pc, mode,
                   target_name, clean_idx, result, regen, child, child_status,
                   written, rd, nread, abort_req, chan, removed, cancel_seen,
                   chan_at_cancel, cancel_at, spawns, drained, build_state,
                   build_handle, notified, builds, orphans>>

\* Mutant of AppPollCheck: the completion is reported in every build_state.
AppPollCheck_AnyState(prompt) ==
    /\ poll_pc = "drained"
    /\ poll_pc' = "idle"
    /\ IF handle /\ try_finished[1] = "Some"
          /\ build_state \in {"Running", "Cancelled"}
       THEN LET ok == try_finished[2]
                v == PushAll(AppLogs,
                        IF ok THEN <<AppLine("Build completed successfully.")>>
                        ELSE <<AppLine("Build finished with errors.")>>
                             \o prompt)
            IN  /\ build_state' = IF ok THEN "Success" ELSE "Error"
                /\ notified' = Append(notified,
                                      IF ok THEN "success" ELSE "failed")
                /\ SetLogs(LogView(v.logs, SatSub(Len(v.logs), 1), TRUE))
                /\ build_handle' = FALSE
                /\ last_poll' = try_finished
       ELSE UNCHANGED <<build_state, notified, logs, log_scroll,
                        auto_scroll_logs, build_handle, last_poll>>
    /\ UNCHANGED <<project, ubt_exists, fs, calls, last_req, last_ret,
                   prev_ret, handle, finished, success, cancel_flag,
                   seen_finished, seen_success, pc, mode, target_name,
                   clean_idx, result, regen, child, child_status, written, rd,
                   nread, abort_req, chan, removed, cancel_seen,
                   chan_at_cancel, cancel_at, spawns, recv, drained, log_rx,
                   builds, orphans>>

\* poll_build, second half: while Running, try_finished on the handle; on
\* Some the state, the closing line, the notification, follow_latest_logs
\* and build_handle = None.
AppPollCheck(prompt) ==
    /\ poll_pc = "drained"
    /\ poll_pc' = "idle"
    /\ IF build_state = "Running" /\ build_handle
          /\ try_finished[1] = "Some"
       THEN LET ok == try_finished[2]
                v == PushAll(AppLogs,
                        IF ok THEN <<AppLine("Build completed successfully.")>>
                        ELSE <<AppLine("Build finished with errors.")>>
                             \o prompt)
            IN  /\ build_state' = IF ok THEN "Success" ELSE "Error"
                /\ notified' = Append(notified,
                                      IF ok THEN "success" ELSE "failed")
                /\ SetLogs(LogView(v.logs, SatSub(Len(v.logs), 1), TRUE))
                /\ build_handle' = FALSE
                /\ last_poll' = try_finished
       ELSE UNCHANGED <<build_state, notified, logs, log_scroll,
                        auto_scroll_logs, build_handle, last_poll>>
    /\ UNCHANGED <<project, ubt_exists, fs, calls, last_req, last_ret,
                   prev_ret, handle, finished, success, cancel_flag,
                   seen_finished, seen_success, pc, mode, target_name,
                   clean_idx, result, regen, child, child_status, written, rd,
                   nread, abort_req, chan, removed, cancel_seen,
                   chan_at_cancel, cancel_at, spawns, recv, drained, log_rx,
                   builds, orphans>>

\* The task of an earlier build stores finished.
OrphanFinish ==
    /\ orphans > 0
    /\ orphans' = orphans - 1
    /\ UNCHANGED <<project, ubt_exists, fs, calls, taskVars, build_state,
                   build_handle, log_rx, logs, log_scroll, auto_scroll_logs,
                   notified, poll_pc, builds>>

\* The project the App builds: a project file in a directory that holds no
\* target file and none of the paths cleaning removes, with no editor_target
\* set in the configuration.
AppProject ==
    [exists |-> TRUE, has_parent |-> TRUE, has_name |-> TRUE, stem |-> sFoo,
     source |-> {}, artifacts |-> {}, editor_target |-> NoOverride]

AppInit ==
    /\ project = AppProject
    /\ ubt_exists \in BOOLEAN
    /\ fs = project.artifacts
    /\ last_req = <<NoOverride, "Standard">>
    /\ last_ret = <<"None">>
    /\ prev_ret = <<"None">>
    /\ handle = FALSE
    /\ finished = FALSE
    /\ success = FALSE
    /\ cancel_flag = FALSE
    /\ seen_finished = FALSE
    /\ seen_success = FALSE
    /\ last_poll = NoPoll
    /\ pc = "none"
    /\ mode = "Standard"
    /\ target_name = <<>>
    /\ clean_idx = 1
    /\ result = NoResult
    /\ regen = NoRegen
    /\ child = "none"
    /\ child_status = FALSE
    /\ written = [s \in Streams |-> 0]
    /\ rd = [s \in Streams |-> "none"]
    /\ nread = [s \in Streams |-> 0]
    /\ abort_req = [s \in Streams |-> FALSE]
    /\ chan = <<>>
    /\ removed = <<>>
    /\ cancel_seen = "none"
    /\ chan_at_cancel = <<>>
    /\ cancel_at = "never"
    /\ spawns = <<>>
    /\ calls = <<>>
    /\ recv = 0
    /\ drained = FALSE
    /\ AppNew

StartChoices == {"no_project", "no_engine", "ok"}

AppNext ==
    \/ \E sel \in StartChoices, m \in Modes,
             entries \in Enumerations(project.source), prompt \in PromptLines :
          AppStart(sel, AppProject.editor_target, m, entries, prompt)
    \/ AppCancel
    \/ AppClear
    \/ AppPollDrain
    \/ \E prompt \in PromptLines : AppPollCheck(prompt)
    \/ OrphanFinish
    \/ VisibleFinished
    \/ VisibleSuccess
    \/ TaskStep
    \/ \E ok \in BOOLEAN, o \in RegenOutputs : RegenExit(ok, o)
    \/ \E ok \in BOOLEAN : ChildExit(ok)
    \/ \E s \in Streams : ReaderEof(s)
    \/ \E s \in Streams : ReaderAborted(s)

AppSpec == AppInit /\ [][AppNext]_vars

(* ------------------------- claims about the App ------------------------ *)

\* The background tasks that have not stored finished.
UnfinishedTasks == orphans + (IF TaskUnfinished THEN 1 ELSE 0)

\* C31 (as stated): at most one background task of a build is unfinished at
\* any time, also after cancel_build.
C31_OneUnfinishedTask == UnfinishedTasks <= 1

CompletionTexts ==
    {"Build completed successfully.", "Build finished with errors."}

\* The lines the App writes itself; every other line of App.logs was taken
\* from the log channel.
AppTexts ==
    CompletionTexts \cup
    {"Build cancelled by user.", "editor target prompt",
     "Failed to start build: ", "No engine path set.",
     "No project selected. Select one in Projects and press Enter."}

\* C32 (as stated): once poll_build has written the completion line, every
\* line the build sent is already in App.logs: no line of the channel
\* follows the completion line, and none is left on the channel.
C32_LogCompleteAtCompletion ==
    /\ \A i \in 1..Len(logs) :
           logs[i].text \in CompletionTexts =>
               \A j \in (i + 1)..Len(logs) : logs[j].text \in AppTexts
    /\ (\E i \in 1..Len(logs) : logs[i].text \in CompletionTexts) =>
           recv = Len(chan)

\* C33: after every App operation build_handle is Some exactly when
\* build_state is Running.  poll_build is one operation in two steps, so the
\* claim speaks of the states where it is not in progress.
C33_HandleIffRunning ==
    poll_pc = "idle" => (build_handle <=> build_state = "Running")

\* cancel_build has taken the handle of a running build.
C33_Witness ==
    /\ poll_pc = "idle"
    /\ build_state = "Cancelled"
    /\ ~build_handle
    /\ handle
    /\ cancel_flag

CompletionCount(q) ==
    Cardinality({i \in 1..Len(q) : q[i].text \in CompletionTexts})

\* C34: after cancel_build the state stays Cancelled until a new start
\* (builds grows) or a clear (Idle with empty logs); no step in between
\* adds a completion line or a notification.
C34_CancelledStays ==
    [][(build_state = "Cancelled" /\ builds' = builds) =>
          /\ build_state' \in {"Cancelled", "Idle"}
          /\ build_state' = "Idle" => logs' = <<>>
          /\ notified' = notified
          /\ CompletionCount(logs') <= CompletionCount(logs)]_vars

\* poll_build is about to look at a cancelled build whose task has finished
\* with success = true.
C34_Witness ==
    /\ build_state = "Cancelled"
    /\ poll_pc = "drained"
    /\ handle
    /\ finished /\ seen_finished
    /\ success /\ seen_success
    /\ notified = <<>>

(* ------------------- claims about the readers and cleaning ------------- *)

\* C35 (as stated): 'Build process killed.' is the last line of a compile
\* cancelled in the poll loop: no line of the process's stdout or stderr
\* is on the channel after it.
C35_KilledLineLast ==
    \A i \in 1..Len(chan) :
        chan[i].text = "Build process killed." =>
            \A j \in (i + 1)..Len(chan) : chan[j].text \notin Streams

\* The reader of stream s has stopped on a failed read: it is done with a
\* line of its pipe unread (ReaderEof needs the pipe empty and closed).
ReadFailed(s) == rd[s] = "done" /\ nread[s] < written[s]

BuildErrorLines(q) == {i \in 1..Len(q) : q[i].text = "Build error: "}

\* C36: a failed read on one stream stops that stream's reader and nothing
\* else: the step sends no line, leaves the other reader, the process and
\* the supervising loop as they were; a build with a failed read reports no
\* 'Build error:' for it, and its result is the exit status of the process
\* unless it was cancelled or waiting for the process failed.
C36_ReadFailureIsLocal ==
    [][/\ \A s \in Streams :
              (rd[s] = "reading" /\ rd'[s] = "done" /\ nread[s] < written[s]) =>
                  /\ chan' = chan
                  /\ <<pc, result, child, child_status>>' =
                         <<pc, result, child, child_status>>
                  /\ nread' = nread /\ abort_req' = abort_req
                  /\ \A t \in Streams \ {s} : rd'[t] = rd[t]
       /\ ((\E s \in Streams : ReadFailed(s)') /\ Returned') =>
              /\ BuildErrorLines(chan') # {} => WaitFailed'
              /\ IsErr(result') => WaitFailed'
              /\ (IsOk(result') /\ cancel_seen' = "none") =>
                     (child' = "exited" /\ result' = Ok(child_status'))]_vars

\* stdout's reader failed on its first line, stderr was forwarded to its end
\* and the build returned the exit status of the process.
C36_Witness ==
    /\ ReadFailed("stdout")
    /\ nread["stdout"] = 0
    /\ rd["stderr"] = "done"
    /\ nread["stderr"] = written["stderr"]
    /\ written["stderr"] >= 1
    /\ pc = "done"
    /\ result = Ok(TRUE)
    /\ cancel_seen = "none"

RegenTexts == {"regen stdout", "regen stderr"}
RegenSent == SelectSeq(chan, LAMBDA l : l.text \in RegenTexts)
HasInk(x) == \E i \in 1..Len(x) : x[i] # " "
RegenForwarded == regen.st = "exited" /\ pc # "regen_wait"

\* C37: nothing of the regeneration is on the channel before its process
\* has exited; afterwards the channel holds its non-blank stdout lines in
\* order, then its non-blank stderr lines in order, all of them after the
\* 'regenerating' line and before every line of the compile process and
\* before 'Build error:'.
C37_RegenOutputAfterExit ==
    /\ ~RegenForwarded => RegenSent = <<>>
    /\ RegenForwarded =>
          LET out == SelectSeq(regen.out, HasInk)
              err == SelectSeq(regen.err, HasInk)
          IN  /\ Len(RegenSent) = Len(out) + Len(err)
              /\ \A i \in 1..Len(out) :
                     RegenSent[i] = Line("regen stdout", out[i], 0)
              /\ \A i \in 1..Len(err) :
                     RegenSent[Len(out) + i] = Line("regen stderr", err[i], 0)
    /\ \A i \in 1..Len(chan) :
          chan[i].text \in RegenTexts =>
              /\ \E j \in 1..(i - 1) :
                     chan[j].text =
                         "Clean rebuild: regenerating project files..."
              /\ \A j \in 1..(i - 1) :
                     chan[j].text \notin Streams \cup {"Build error: "}

\* A failed regeneration with output on both streams: its lines are on the
\* channel, followed by 'Build error:'.
C37_Witness ==
    /\ RegenForwarded
    /\ ~regen.ok
    /\ Len(RegenSent) = 3
    /\ chan[Len(chan)].text = "Build error: "
    /\ pc = "done"

SlnPath == "<stem>.sln"
SecondCandidate == Len(CleanList)
SlnRemovals == Cardinality({i \in 1..Len(removed) : removed[i] = SlnPath})

\* C38: the two solution-file candidates are one file: once the first has
\* been removed the second is found absent and skipped, so the file is
\* removed once with one 'Removing file' line, and cleaning never fails on
\* the second candidate.
C38_SolutionRemovedOnce ==
    /\ Count(chan, "Removing file: ") <= 1
    /\ SlnRemovals <= 1
    /\ (SlnRemovals = 1 /\ clean_idx >= SecondCandidate) =>
           /\ SlnPath \notin fs
           /\ Count(chan, "Removing file: ") = 1
           /\ ~(IsErr(result) /\ result[2].text = "Failed to remove ")
    /\ (IsErr(result) /\ result[2].text = "Failed to remove ") =>
           clean_idx < SecondCandidate

\* Cleaning has gone through both candidates of a project that had the
\* solution file.
C38_Witness ==
    /\ SlnPath \in project.artifacts
    /\ clean_idx > SecondCandidate
    /\ SlnRemovals = 1
    /\ Count(chan, "Removing file: ") = 1
    /\ pc = "clean_check2"

(* --------------------------- App.logs at its cap ----------------------- *)

\* Bound on the non-empty push_log calls since the last clear.
MaxPush == 3

\* Log texts, character by character: empty, an escape sequence alone,
\* white space alone, a control character alone, a plain character, a
\* coloured word with a line end, and a word with a tab inside.
RawTexts ==
    { <<>>,
      <<"ESC", "[", "1", "m">>,
      <<" ", "TAB", "CR">>,
      <<"BEL">>,
      <<"a">>,
      <<"ESC", "[", "1", "m", "a", "LF">>,
      <<"1", "TAB", "a">> }

\* n lines pushed earlier, numbered from the oldest.
OldLogs(n) == [i \in 1..n |-> Line("old", <<>>, i)]

RawCount(q) == Cardinality({i \in 1..Len(q) : IsRaw(q[i])})

\* The App with no build, with a log that is empty, one short of the cap or
\* at the cap, following the newest line or scrolled by the keys of the log
\* panel.
LogInit ==
    /\ project = AppProject
    /\ ubt_exists = TRUE
    /\ fs = project.artifacts
    /\ last_req = <<NoOverride, "Standard">>
    /\ last_ret = <<"None">>
    /\ prev_ret = <<"None">>
    /\ handle = FALSE
    /\ finished = FALSE
    /\ success = FALSE
    /\ cancel_flag = FALSE
    /\ seen_finished = FALSE
    /\ seen_success = FALSE
    /\ last_poll = NoPoll
    /\ pc = "none"
    /\ mode = "Standard"
    /\ target_name = <<>>
    /\ clean_idx = 1
    /\ result = NoResult
    /\ regen = NoRegen
    /\ child = "none"
    /\ child_status = FALSE
    /\ written = [s \in Streams |-> 0]
    /\ rd = [s \in Streams |-> "none"]
    /\ nread = [s \in Streams |-> 0]
    /\ abort_req = [s \in Streams |-> FALSE]
    /\ chan = <<>>
    /\ removed = <<>>
    /\ cancel_seen = "none"
    /\ chan_at_cancel = <<>>
    /\ cancel_at = "never"
    /\ spawns = <<>>
    /\ calls = <<>>
    /\ recv = 0
    /\ drained = FALSE
    /\ build_state = "Idle"
    /\ build_handle = FALSE
    /\ log_rx = FALSE
    /\ notified = <<>>
    /\ poll_pc = "idle"
    /\ builds = 0
    /\ orphans = 0
    /\ \E n \in {0, LogCap - 1, LogCap} :
          /\ logs = OldLogs(n)
          /\ \/ /\ auto_scroll_logs = TRUE
                /\ log_scroll = SatSub(n, 1)
             \/ /\ auto_scroll_logs = FALSE
                /\ log_scroll \in {0, LogDrop - 1, LogDrop, LogCap - 1}

\* One push_log call with the text raw.
LogPush(raw) ==
    /\ RawCount(logs) < MaxPush
    /\ SetLogs(push_log(AppLogs, Line("raw", raw, 0)))
    /\ UNCHANGED <<project, ubt_exists, fs, calls, taskVars, build_state,
                   build_handle, log_rx, notified, poll_pc, builds, orphans>>

\* handle_logs_key: g goes to the first line, G follows the newest line.
\* (j, k and the page keys move log_scroll by 1 or 20 without auto-scroll;
\* the positions they reach are those LogInit starts from.)
LogKey(key) ==
    /\ key \in {"g", "G"}
    /\ log_scroll' = IF key = "g" THEN 0 ELSE SatSub(Len(logs), 1)
    /\ auto_scroll_logs' = (key = "G")
    /\ UNCHANGED <<project, ubt_exists, fs, calls, taskVars, build_state,
                   build_handle, log_rx, logs, notified, poll_pc, builds,
                   orphans>>

LogNext ==
    \/ \E raw \in RawTexts : LogPush(raw)
    \/ \E key \in {"g", "G"} : LogKey(key)
    \/ AppClear

LogSpec == LogInit /\ [][LogNext]_vars

\* The step appended a line: logs changed and was not cleared.
Pushed == logs' # logs /\ logs' # <<>>
Overflow == Len(logs) + 1 > LogCap
Kept == IF Overflow THEN SubSeq(logs, LogDrop + 1, Len(logs)) ELSE logs

\* Every line pushed character by character is non-empty, has no escape,
\* control, tab or line-end character and no trailing space.
CleanLines(q) ==
    \A i \in 1..Len(q) :
        IsRaw(q[i]) =>
            /\ q[i].arg # <<>>
            /\ q[i].arg[Len(q[i].arg)] # " "
            /\ \A k \in 1..Len(q[i].arg) :
                   q[i].arg[k] \notin {"ESC", "BEL", "TAB", "CR", "LF"}

\* C39 (as stated): App.logs never exceeds 10,000 lines; a push that would
\* exceed it drops the oldest 1,000 lines, keeps the order of the others and
\* reduces log_scroll by 1,000, saturating at 0; a line that is empty after
\* sanitising is not appended.
C39_CapAndScrollReduced ==
    [][/\ Len(logs') <= LogCap
       /\ CleanLines(logs')
       /\ Pushed =>
             /\ Len(logs') = Len(Kept) + 1
             /\ SubSeq(logs', 1, Len(Kept)) = Kept
             /\ Overflow => log_scroll' = SatSub(log_scroll, LogDrop)]_vars

\* C39 (amended): as above, but log_scroll is reduced by 1,000 only without
\* auto-scroll; with auto_scroll_logs it is the index of the newest line
\* after the drop.
C39_CapAndScroll ==
    [][/\ Len(logs') <= LogCap
       /\ CleanLines(logs')
       /\ Pushed =>
             /\ Len(logs') = Len(Kept) + 1
             /\ SubSeq(logs', 1, Len(Kept)) = Kept
             /\ Overflow =>
                   log_scroll' = IF auto_scroll_logs THEN Len(logs') - 1
                                 ELSE SatSub(log_scroll, LogDrop)]_vars

\* A push at the cap has dropped the oldest 1,000 lines with the view
\* scrolled up: the first line is old line 1,001, the pushed line is the
\* last, and log_scroll went from 999 to 0.
C39_Witness ==
    /\ Len(logs) = LogCap - LogDrop + 1
    /\ logs[1] = Line("old", <<>>, LogDrop + 1)
    /\ RawCount(logs) = 1
    /\ IsRaw(logs[Len(logs)])
    /\ ~auto_scroll_logs
    /\ log_scroll = 0

====
